---- MODULE Spec2Model ----
(***************************************************************************)
(* State-machine model of the ego data-access gateway: the REST engine     *)
(* (handlers), the relational (gorm) and document (mongo) adapters, the    *)
(* soft-delete policy, the filter grammar and the total-count cache with   *)
(* its background refresher.                                               *)
(*                                                                         *)
(* Strings are sequences of one-character strings, so that parsing,        *)
(* splitting, trimming and formatting are computed and not assumed.        *)
(* Values (Go interface{} / BSON / SQL values) are records [t, n, s]: a    *)
(* type tag, a numeric payload and a string payload.                       *)
(***************************************************************************)
EXTENDS Integers, Sequences, FiniteSets, TLC

\* ------------------------------------------------------------------------
\* Bounds of the model
\* ------------------------------------------------------------------------
\* Largest value of the wall clock (time.Now()).
MaxClock == 3
\* Largest number of records a table ever receives (auto-increment / ObjectID).
MaxRows == 2

\* ------------------------------------------------------------------------
\* Values
\* ------------------------------------------------------------------------
NullV == [t |-> "null", n |-> 0, s |-> <<>>]
IntV(i) == [t |-> "int", n |-> i, s |-> <<>>]
FloatV(i) == [t |-> "float", n |-> i, s |-> <<>>]
\* An integer of a Go type other than int and int64: the int32 a driver
\* delivers for a 32-bit column or a BSON int32.
Int32V(i) == [t |-> "int32", n |-> i, s |-> <<>>]
BoolV(b) == [t |-> "bool", n |-> (IF b THEN 1 ELSE 0), s |-> <<>>]
StrV(str) == [t |-> "str", n |-> 0, s |-> str]
\* time.Time; TimeV(0) is the zero value time.Time{}.
TimeV(i) == [t |-> "time", n |-> i, s |-> <<>>]
\* primitive.ObjectID, kept as its hex text.
OidV(hex) == [t |-> "oid", n |-> 0, s |-> hex]

IsNumeric(x) == x.t \in {"int", "int32", "float"}

\* ------------------------------------------------------------------------
\* Strings: strconv, strings.Split, strings.TrimSpace
\* ------------------------------------------------------------------------
Digits == <<"0", "1", "2", "3", "4", "5", "6", "7", "8", "9">>

IsDigit(c) == \E i \in 1..Len(Digits) : Digits[i] = c

DigitVal(c) == (CHOOSE i \in 1..Len(Digits) : Digits[i] = c) - 1

RECURSIVE DecValue(_)
DecValue(str) ==
  IF str = <<>> THEN 0
  ELSE 10 * DecValue(SubSeq(str, 1, Len(str) - 1)) + DigitVal(str[Len(str)])

\* LET body be the text after an optional sign.
SignedBody(str) ==
  IF Len(str) > 0 /\ str[1] \in {"+", "-"} THEN Tail(str) ELSE str

\* strconv.ParseInt(value, 10, 64) succeeds: an optional sign and one or more
\* decimal digits (the modelled inputs are short, far from the int64 range).
ParseIntOk(str) ==
  /\ Len(SignedBody(str)) > 0
  /\ \A i \in 1..Len(SignedBody(str)) : IsDigit(SignedBody(str)[i])

ParseIntVal(str) ==
  IF Len(str) > 0 /\ str[1] = "-" THEN 0 - DecValue(SignedBody(str))
  ELSE DecValue(SignedBody(str))

\* strconv.ParseFloat(value, 64) on the texts of the model, none of which
\* carries a fraction, an exponent, a hex prefix or spells inf or nan: what
\* is left of the float grammar is the signed decimal integers.
ParseFloatOk(str) == ParseIntOk(str)

\* strconv.ParseBool: the accepted spellings.
BoolTrueStrings ==
  { <<"1">>, <<"t">>, <<"T">>, <<"T", "R", "U", "E">>, <<"t", "r", "u", "e">>,
    <<"T", "r", "u", "e">> }

BoolFalseStrings ==
  { <<"0">>, <<"f">>, <<"F">>, <<"F", "A", "L", "S", "E">>,
    <<"f", "a", "l", "s", "e">>, <<"F", "a", "l", "s", "e">> }

ParseBoolOk(str) == str \in BoolTrueStrings \cup BoolFalseStrings

parseFilterValue(value) ==
  IF ParseIntOk(value) THEN IntV(ParseIntVal(value))
  ELSE IF ParseFloatOk(value) THEN FloatV(ParseIntVal(value))
  ELSE IF ParseBoolOk(value) THEN BoolV(value \in BoolTrueStrings)
  ELSE StrV(value)

\* Index of the first sep in str, 0 when there is none.
IndexOf(str, sep) ==
  IF \E i \in 1..Len(str) : str[i] = sep
  THEN CHOOSE i \in 1..Len(str) : str[i] = sep /\ \A j \in 1..(i - 1) : str[j] # sep
  ELSE 0

RECURSIVE Split(_, _)
\* strings.Split(str, sep) for a one-character sep: n separators give n+1 parts.
Split(str, sep) ==
  IF IndexOf(str, sep) = 0 THEN <<str>>
  ELSE <<SubSeq(str, 1, IndexOf(str, sep) - 1)>>
         \o Split(SubSeq(str, IndexOf(str, sep) + 1, Len(str)), sep)

RECURSIVE TrimLeft(_)
TrimLeft(str) ==
  IF Len(str) > 0 /\ str[1] = " " THEN TrimLeft(Tail(str)) ELSE str

RECURSIVE TrimRight(_)
TrimRight(str) ==
  IF Len(str) > 0 /\ str[Len(str)] = " "
  THEN TrimRight(SubSeq(str, 1, Len(str) - 1)) ELSE str

\* strings.TrimSpace (the only white space of the modelled alphabet is ' ').
TrimSpace(str) == TrimRight(TrimLeft(str))

parseStringList(value) ==
  IF value = <<>> THEN <<>> ELSE Split(value, ",")

parseFilterValues(value) ==
  [i \in 1..Len(Split(value, ",")) |->
     parseFilterValue(TrimSpace(Split(value, ",")[i]))]

\* ------------------------------------------------------------------------
\* Ordering of strings (byte order over the modelled alphabet)
\* ------------------------------------------------------------------------
Alphabet ==
  <<" ", "$", "+", ",", "-", "0", "1", "2", "3", "4", "5", "6", "7", "8", "9",
    "A", "E", "F", "L", "R", "S", "T", "U", "_", "a", "b", "c", "d", "e", "f",
    "i", "l", "r", "s", "t", "u", "v">>

Rank(c) == CHOOSE i \in 1..Len(Alphabet) : Alphabet[i] = c

RECURSIVE StrLess(_, _)
StrLess(a, b) ==
  IF b = <<>> THEN FALSE
  ELSE IF a = <<>> THEN TRUE
  ELSE IF a[1] = b[1] THEN StrLess(Tail(a), Tail(b))
  ELSE Rank(a[1]) < Rank(b[1])

\* ------------------------------------------------------------------------
\* Document store (MongoDB) query semantics, as the driver's server applies
\* them to the filter documents the adapter builds.
\* ------------------------------------------------------------------------
\* BSON comparison brackets: numbers compare across int/double, nothing
\* compares across brackets.
Bracket(x) == IF IsNumeric(x) THEN "number" ELSE x.t

\* Inside one bracket.
ValEq(x, y) == Bracket(x) = Bracket(y) /\ x.n = y.n /\ x.s = y.s

ValLess(x, y) ==
  /\ Bracket(x) = Bracket(y)
  /\ IF x.t \in {"str", "oid"} THEN StrLess(x.s, y.s) ELSE x.n < y.n

\* A filter condition on one key: op is "$eq" for {f: v}, a query operator
\* for {f: {op: v}}, "$range" for {f: {$gte: v, $lte: w}}, and "$or" for the
\* array of alternatives; alts is a sequence of [f, c] pairs.
Cond(op, v, w, alts) == [op |-> op, v |-> v, w |-> w, alts |-> alts]

EqCond(v) == Cond("$eq", v, NullV, <<>>)

OpCond(op, v) == Cond(op, v, NullV, <<>>)

\* {f: {$in: [...]}}: the list travels in alts as [f |-> "", c |-> EqCond(e)].
InCond(vals) ==
  Cond("$in", NullV, NullV, [i \in 1..Len(vals) |-> [f |-> "", c |-> EqCond(vals[i])]])

OrCond(alts) == Cond("$or", NullV, NullV, alts)

\* {f: v}: a missing field equals only null.
MongoFieldEq(doc, f, v) ==
  IF f \in DOMAIN doc THEN ValEq(doc[f], v) ELSE v.t = "null"

MongoFieldHolds(doc, f, c) ==
  CASE c.op = "$eq" -> MongoFieldEq(doc, f, c.v)
    [] c.op = "$ne" -> ~MongoFieldEq(doc, f, c.v)
    [] c.op = "$gte" -> f \in DOMAIN doc /\ (ValEq(doc[f], c.v) \/ ValLess(c.v, doc[f]))
    [] c.op = "$lte" -> f \in DOMAIN doc /\ (ValEq(doc[f], c.v) \/ ValLess(doc[f], c.v))
    [] c.op = "$gt" -> f \in DOMAIN doc /\ ValLess(c.v, doc[f])
    [] c.op = "$lt" -> f \in DOMAIN doc /\ ValLess(doc[f], c.v)
    [] c.op = "$range" ->
         /\ f \in DOMAIN doc
         /\ ValEq(doc[f], c.v) \/ ValLess(c.v, doc[f])
         /\ ValEq(doc[f], c.w) \/ ValLess(doc[f], c.w)
    [] c.op = "$in" -> \E i \in 1..Len(c.alts) : MongoFieldEq(doc, f, c.alts[i].c.v)
    [] c.op = "$exists" -> (f \in DOMAIN doc) <=> (c.v.n = 1)
    [] OTHER -> FALSE

\* One top-level key of a filter document.
MongoKeyHolds(doc, k, c) ==
  IF k = "$or"
  THEN \E i \in 1..Len(c.alts) : MongoFieldHolds(doc, c.alts[i].f, c.alts[i].c)
  ELSE MongoFieldHolds(doc, k, c)

\* The server rejects a filter whose $or is not an array.
MongoFilterInvalid(filter) ==
  "$or" \in DOMAIN filter /\ filter["$or"].op # "$or"

MongoMatches(doc, filter) ==
  \A k \in DOMAIN filter : MongoKeyHolds(doc, k, filter[k])

\* filter[k] = c on a Go map / bson.M: the last write to a key wins.
MapSet(m, k, c) == [x \in DOMAIN m \cup {k} |-> IF x = k THEN c ELSE m[x]]

EmptyMap == [x \in {} |-> NullV]

\* ------------------------------------------------------------------------
\* Relational store query semantics: a WHERE clause is a set of conjuncts
\* (gorm joins its Where calls with AND and parenthesises one holding OR).
\* A comparison with NULL is never true.  A bound argument is compared in the
\* column's storage class: text that is a decimal literal (spaces around it
\* allowed) compares as a number with a numeric column, booleans are the
\* integers 0 and 1, and other text never equals a number.
\* ------------------------------------------------------------------------
SqlNum(x) ==
  IF x.t \in {"int", "int32", "float", "bool"} THEN x.n
  ELSE IF x.t = "str" /\ ParseIntOk(TrimSpace(x.s)) THEN ParseIntVal(TrimSpace(x.s))
  ELSE 0

SqlIsNum(x) ==
  x.t \in {"int", "int32", "float", "bool"} \/ (x.t = "str" /\ ParseIntOk(TrimSpace(x.s)))

\* Both sides as numbers when either is numeric and both can be.
SqlNumeric(x, y) ==
  /\ x.t \in {"int", "int32", "float", "bool"} \/ y.t \in {"int", "int32", "float", "bool"}
  /\ SqlIsNum(x) /\ SqlIsNum(y)

SqlEq(x, y) ==
  /\ x.t # "null" /\ y.t # "null"
  /\ IF SqlNumeric(x, y) THEN SqlNum(x) = SqlNum(y)
     ELSE x.t = y.t /\ x.n = y.n /\ x.s = y.s

SqlLess(x, y) ==
  /\ x.t # "null" /\ y.t # "null"
  /\ IF SqlNumeric(x, y) THEN SqlNum(x) < SqlNum(y)
     ELSE IF x.t = y.t THEN (IF x.t = "str" THEN StrLess(x.s, y.s) ELSE x.n < y.n)
     ELSE x.t \in {"int", "int32", "float", "bool"} /\ y.t = "str"

\* One conjunct: f the column, op the SQL operator, vals the bound arguments.
SqlCond(f, op, vals) == [f |-> f, op |-> op, vals |-> vals]

SqlHolds(row, c) ==
  CASE c.op = "=" -> SqlEq(row[c.f], c.vals[1])
    [] c.op = "<>" -> row[c.f].t # "null" /\ c.vals[1].t # "null" /\ ~SqlEq(row[c.f], c.vals[1])
    [] c.op = ">=" -> SqlEq(row[c.f], c.vals[1]) \/ SqlLess(c.vals[1], row[c.f])
    [] c.op = "<=" -> SqlEq(row[c.f], c.vals[1]) \/ SqlLess(row[c.f], c.vals[1])
    [] c.op = ">" -> SqlLess(c.vals[1], row[c.f])
    [] c.op = "<" -> SqlLess(row[c.f], c.vals[1])
    [] c.op = "IN" -> \E i \in 1..Len(c.vals) : SqlEq(row[c.f], c.vals[i])
    [] c.op = "IS NULL" -> row[c.f].t = "null"
    [] c.op = "IS NOT NULL" -> row[c.f].t # "null"
    [] c.op = "BETWEEN" ->
         /\ SqlEq(row[c.f], c.vals[1]) \/ SqlLess(c.vals[1], row[c.f])
         /\ SqlEq(row[c.f], c.vals[2]) \/ SqlLess(row[c.f], c.vals[2])
    [] c.op = "IS NULL OR =" -> row[c.f].t = "null" \/ SqlEq(row[c.f], c.vals[1])
    [] OTHER -> FALSE

SqlMatches(row, where) == \A c \in where : SqlHolds(row, c)

\* ------------------------------------------------------------------------
\* Metadata introspection: the heuristics that produce a table's
\* softdel_type and default_values (names and types are texts).
\* ------------------------------------------------------------------------
\* strings.Contains
Contains(str, sub) ==
  \E i \in 0..(Len(str) - Len(sub)) : SubSeq(str, i + 1, i + Len(sub)) = sub

\* The texts of the field names of the model.
NameText(f) ==
  CASE f = "id" -> <<"i", "d">>
    [] f = "_id" -> <<"_", "i", "d">>
    [] f = "v" -> <<"v">>
    [] f = "is_deleted" -> <<"i", "s", "_", "d", "e", "l", "e", "t", "e", "d">>
    [] f = "deleted_time" -> <<"d", "e", "l", "e", "t", "e", "d", "_", "t", "i", "m", "e">>
    [] f = "w" -> <<"w">>
    [] f = "updated_at" -> <<"u", "p", "d", "a", "t", "e", "d", "_", "a", "t">>
    [] OTHER -> <<>>

softDelNames ==
  { <<"i", "s", "_", "d", "e", "l", "e", "t", "e", "d">>, <<"d", "e", "l", "e", "t", "e", "d", "_", "t", "i", "m", "e">> }

\* isSoftDelField, over the soft-delete names the model uses (the closed list
\* of the source holds 26 names; strings.ToLower is the identity on them).
isSoftDelField(name) == name \in softDelNames

isStringType(typ) ==
  \/ Contains(typ, <<"c", "h", "a", "r">>) \/ Contains(typ, <<"t", "e", "x", "t">>) \/ Contains(typ, <<"j", "s", "o", "n">>)
  \/ Contains(typ, <<"e", "n", "u", "m">>)

isIntType(typ) == Contains(typ, <<"i", "n", "t">>)

isFloatType(typ) ==
  \/ Contains(typ, <<"f", "l", "o", "a", "t">>) \/ Contains(typ, <<"d", "o", "u", "b", "l", "e">>) \/ Contains(typ, <<"d", "e", "c", "i", "m", "a", "l">>)
  \/ Contains(typ, <<"n", "u", "m", "e", "r", "i", "c">>) \/ Contains(typ, <<"r", "e", "a", "l">>)

isTimeType(typ) == Contains(typ, <<"t", "i", "m", "e">>) \/ Contains(typ, <<"d", "a", "t", "e">>)

guessSoftDelType(typ) ==
  IF Contains(typ, <<"i", "n", "t">>) THEN "int"
  ELSE IF Contains(typ, <<"b", "o", "o", "l">>) THEN "boolean"
  ELSE IF Contains(typ, <<"t", "i", "m", "e">>) \/ Contains(typ, <<"d", "a", "t", "e">>) THEN "timestamp"
  ELSE "int"

\* collectDefaultValueFields for a soft-delete column that has no column
\* default, is not on-update and is not the primary key.
SoftDelDefault(typ) ==
  IF isIntType(typ) \/ isFloatType(typ) THEN IntV(0)
  ELSE IF isStringType(typ) THEN StrV(<<>>)
  ELSE IntV(0)

\* collectDefaultValueFields: fields is a set of [Name, Type] columns, none
\* with a column default; the data column gets no entry.
collectDefaultValueFields(fields, primaryKey) ==
  LET soft == {f \in fields : f.Name # primaryKey /\ isSoftDelField(NameText(f.Name))}
  IN  [k \in {f.Name : f \in soft} |->
         SoftDelDefault((CHOOSE f \in soft : f.Name = k).Type)]

\* One relational table as extractMySQLMeta / extractSQLiteMeta describe it:
\* the tables of the model carry no unique index besides the primary key
\* and no column with an auto-update name.
SqlTableMeta(name, fields) ==
  LET soft == {f \in fields : isSoftDelField(NameText(f.Name))}
  IN  [Name |-> name, Alias |-> name, PrimaryKey |-> "id",
       SoftDeleteKey |-> IF soft = {} THEN "" ELSE (CHOOSE f \in soft : TRUE).Name,
       SoftDeleteType |->
         IF soft = {} THEN "" ELSE guessSoftDelType((CHOOSE f \in soft : TRUE).Type),
       DefaultValues |-> collectDefaultValueFields(fields, "id"),
       UniqueKeys |-> <<>>, AutoUpdateFields |-> <<>>]

\* One collection as extractMongoDBMeta describes it from the sampled field
\* names: a soft-delete field is "timestamp" when its type or name is a time
\* type and "string" otherwise, and its default value is "".
MongoTableMeta(name, fieldNames) ==
  LET soft == {f \in fieldNames : isSoftDelField(NameText(f))}
      key == IF soft = {} THEN "" ELSE CHOOSE f \in soft : TRUE
  IN  [Name |-> name, Alias |-> name, PrimaryKey |-> "_id",
       SoftDeleteKey |-> key,
       SoftDeleteType |->
         IF soft = {} THEN ""
         ELSE IF isTimeType(NameText(key)) THEN "timestamp" ELSE "string",
       DefaultValues |-> [k \in soft |-> StrV(<<>>)],
       UniqueKeys |-> <<>>, AutoUpdateFields |-> <<>>]

\* ------------------------------------------------------------------------
\* Program constants
\* ------------------------------------------------------------------------
\* viper defaults of loadConfigFromDir.
DefaultPage == 1
DefaultPageSize == 10
MaxPageSize == 1000
\* dm.config of a _base.yaml that sets none of the three keys.
ViperDefaults ==
  [DefaultPage |-> DefaultPage, DefaultPageSize |-> DefaultPageSize, MaxPageSize |-> MaxPageSize]
\* len(str) == 24: the length of an ObjectID in hex.
ObjectIDHexLen == 24

\* ------------------------------------------------------------------------
\* Soft-delete policy
\* ------------------------------------------------------------------------
softDeleteTypeTimestamp == "timestamp"
softDeleteTypeBoolean == "boolean"
softDeleteTypeInt == "int"

applyGormSoftDeleteFilter(tc) ==
  IF tc.SoftDeleteKey # ""
  THEN CASE tc.SoftDeleteType = softDeleteTypeTimestamp ->
              {SqlCond(tc.SoftDeleteKey, "IS NULL OR =", <<TimeV(0)>>)}
         [] tc.SoftDeleteType = softDeleteTypeBoolean ->
              {SqlCond(tc.SoftDeleteKey, "=", <<BoolV(FALSE)>>)}
         [] tc.SoftDeleteType = softDeleteTypeInt ->
              {SqlCond(tc.SoftDeleteKey, "=", <<IntV(0)>>)}
         [] OTHER -> {SqlCond(tc.SoftDeleteKey, "IS NULL", <<>>)}
  ELSE {}

applyMongoSoftDeleteFilter(filter, tc) ==
  IF tc.SoftDeleteKey # ""
  THEN CASE tc.SoftDeleteType = softDeleteTypeTimestamp ->
              MapSet(filter, "$or",
                OrCond(<<[f |-> tc.SoftDeleteKey, c |-> OpCond("$exists", BoolV(FALSE))],
                         [f |-> tc.SoftDeleteKey, c |-> EqCond(NullV)],
                         [f |-> tc.SoftDeleteKey, c |-> EqCond(StrV(<<>>))]>>))
         [] tc.SoftDeleteType = softDeleteTypeBoolean ->
              MapSet(filter, tc.SoftDeleteKey, EqCond(BoolV(FALSE)))
         [] tc.SoftDeleteType = softDeleteTypeInt ->
              MapSet(filter, tc.SoftDeleteKey, EqCond(IntV(0)))
         [] OTHER ->
              MapSet(filter, "$or",
                OrCond(<<[f |-> tc.SoftDeleteKey, c |-> OpCond("$exists", BoolV(FALSE))],
                         [f |-> tc.SoftDeleteKey, c |-> EqCond(NullV)]>>))
  ELSE filter

\* The marker a delete writes (the switch of DeleteOne and BatchDelete, the
\* same in both adapters): updateData[tc.SoftDeleteKey].
SoftDeleteValue_AlwaysNow(tc, clock) == TimeV(clock)

SoftDeleteValue(tc, clock) ==
  CASE tc.SoftDeleteType = softDeleteTypeTimestamp -> TimeV(clock)
    [] tc.SoftDeleteType = softDeleteTypeBoolean -> BoolV(TRUE)
    [] tc.SoftDeleteType = softDeleteTypeInt -> IntV(1)
    [] OTHER -> TimeV(clock)

\* ------------------------------------------------------------------------
\* Requests
\* ------------------------------------------------------------------------
\* url.Values: a query key is kept as the pair <<field, suffix>> that
\* strings.SplitN(key, "__", 2) yields (suffix "" when the key has no "__");
\* the value is values[0].
queryParamPage == <<"page", "">>
queryParamPageSize == <<"page_size", "">>
queryParamFields == <<"fields", "">>
queryParamOrder == <<"order", "">>

ReservedKeys == {queryParamPage, queryParamPageSize, queryParamFields, queryParamOrder}

FilterKeys(q) == DOMAIN q \ ReservedKeys

\* The orders in which a Go range visits the keys of a map: every one.
KeyOrders(keys) ==
  {o \in [1..Cardinality(keys) -> keys] : \A i, j \in DOMAIN o : i # j => o[i] # o[j]}

\* c.DefaultQuery / c.Query
QueryOr(q, key, dflt) == IF key \in DOMAIN q THEN q[key] ELSE dflt

\* strconv.Atoi with its error dropped: 0 on failure.
Atoi(str) == IF ParseIntOk(str) THEN ParseIntVal(str) ELSE 0

RECURSIVE FormatNat(_)
FormatNat(i) ==
  IF i < 10 THEN <<Digits[i + 1]>> ELSE FormatNat(i \div 10) \o <<Digits[(i % 10) + 1]>>

\* strconv.Itoa, fmt.Sprintf("%d"), fmt.Sprintf("%.0f") of an integral value.
Itoa(i) == IF i < 0 THEN <<"-">> \o FormatNat(0 - i) ELSE FormatNat(i)

\* ------------------------------------------------------------------------
\* Relational adapter (gorm)
\* ------------------------------------------------------------------------
StringArgs(stringVals) == [i \in 1..Len(stringVals) |-> StrV(stringVals[i])]

\* The switch of gormAdapter.List on op: the Where call one query parameter
\* adds, as a set of conjuncts.  The pattern operators __like and
\* __icontains are not modelled: no modelled request carries them.
GormWhere(fieldName, op, parsedVal, stringVals, parsedVals) ==
  CASE op = "" -> {SqlCond(fieldName, "=", <<parsedVal>>)}
    [] op = "__gte" -> {SqlCond(fieldName, ">=", <<parsedVal>>)}
    [] op = "__lte" -> {SqlCond(fieldName, "<=", <<parsedVal>>)}
    [] op = "__gt" -> {SqlCond(fieldName, ">", <<parsedVal>>)}
    [] op = "__lt" -> {SqlCond(fieldName, "<", <<parsedVal>>)}
    [] op = "__ne" -> {SqlCond(fieldName, "<>", <<parsedVal>>)}
    [] op = "__in" -> {SqlCond(fieldName, "IN", StringArgs(stringVals))}
    [] op = "__isnull" ->
         IF parsedVal.t = "bool"
         THEN (IF parsedVal.n = 1 THEN {SqlCond(fieldName, "IS NULL", <<>>)}
               ELSE {SqlCond(fieldName, "IS NOT NULL", <<>>)})
         ELSE {}
    [] op = "__between" ->
         IF Len(parsedVals) = 2 THEN {SqlCond(fieldName, "BETWEEN", parsedVals)} ELSE {}
    [] OTHER -> {}

\* parsedVal, stringVals and parsedVals of one query parameter, and its
\* Where call.
GormWhereOf(key, value) ==
  GormWhere(key[1], key[2], parseFilterValue(value), parseStringList(value),
            parseFilterValues(value))

\* The WHERE clause of gormAdapter.List.
GormListWhere(tc, q) ==
  applyGormSoftDeleteFilter(tc)
    \cup UNION {GormWhereOf(key, q[key]) : key \in FilterKeys(q)}

\* The WHERE clause of a lookup map: one equality per entry.
GormFilterWhere(filter) == {SqlCond(k, "=", <<filter[k]>>) : k \in DOMAIN filter}

\* ------------------------------------------------------------------------
\* Document adapter (mongo)
\* ------------------------------------------------------------------------
\* The switch of mongoAdapter.List on op: what one query parameter assigns
\* to filter[fieldName]: [set |-> whether it assigns, c |-> the condition].
MongoCond(op, parsedVal, vals) ==
  CASE op = "" -> [set |-> TRUE, c |-> EqCond(parsedVal)]
    [] op = "__gte" -> [set |-> TRUE, c |-> OpCond("$gte", parsedVal)]
    [] op = "__lte" -> [set |-> TRUE, c |-> OpCond("$lte", parsedVal)]
    [] op = "__gt" -> [set |-> TRUE, c |-> OpCond("$gt", parsedVal)]
    [] op = "__lt" -> [set |-> TRUE, c |-> OpCond("$lt", parsedVal)]
    [] op = "__ne" -> [set |-> TRUE, c |-> OpCond("$ne", parsedVal)]
    [] op = "__in" -> [set |-> TRUE, c |-> InCond(vals)]
    [] op = "__isnull" ->
         [set |-> parsedVal.t = "bool", c |-> OpCond("$exists", BoolV(parsedVal.n # 1))]
    [] op = "__between" ->
         [set |-> Len(vals) = 2,
          c |-> IF Len(vals) = 2 THEN Cond("$range", vals[1], vals[2], <<>>)
                ELSE EqCond(NullV)]
    [] OTHER -> [set |-> FALSE, c |-> EqCond(NullV)]

MongoCondOf(key, value) ==
  MongoCond(key[2], parseFilterValue(value), parseFilterValues(value))

\* filter[fieldName] = ... when the parameter assigns.
MapSetIf(filter, fieldName, a) == IF a.set THEN MapSet(filter, fieldName, a.c) ELSE filter

RECURSIVE MongoApplyParams(_, _, _)
\* The loop of mongoAdapter.List over params.QueryFilters, visiting the keys
\* in the given order.
MongoApplyParams(filter, q, order) ==
  IF order = <<>> THEN filter
  ELSE MongoApplyParams(MapSetIf(filter, Head(order)[1], MongoCondOf(Head(order), q[Head(order)])),
                        q, Tail(order))

MongoListFilter(tc, q, order) ==
  MongoApplyParams(applyMongoSoftDeleteFilter(EmptyMap, tc), q, order)

\* primitive.ObjectIDFromHex succeeds on a text of the right length.
IsHex(c) == IsDigit(c) \/ c \in {"a", "b", "c", "d", "e", "f", "A", "B", "C", "D", "E", "F"}

\* The coercion of a primary-key value: a 24-character hex string becomes an
\* ObjectID.
ToObjectID(v) ==
  IF v.t = "str" /\ Len(v.s) = ObjectIDHexLen /\ \A i \in 1..Len(v.s) : IsHex(v.s[i])
  THEN OidV(v.s) ELSE v

\* ------------------------------------------------------------------------
\* Stored records
\* ------------------------------------------------------------------------
\* A record is a function from field names to values.  The relational
\* backends number their rows 1, 2, ...; the document backend generates
\* ObjectIDs, written here as 23 times "a" and one digit.
OidHex(i) == [k \in 1..ObjectIDHexLen |-> IF k < ObjectIDHexLen THEN "a" ELSE Digits[i + 1]]

\* The position of a record in insertion order, read off its primary key.
Ord(r, pk) == IF r[pk].t = "oid" THEN DigitVal(r[pk].s[ObjectIDHexLen]) ELSE r[pk].n

\* The records of a result set in the order the backend returns them when
\* the request names no order: insertion order.
InOrder(R, pk) ==
  [i \in 1..Cardinality(R) |->
     CHOOSE r \in R : Cardinality({o \in R : Ord(o, pk) < Ord(r, pk)}) = i - 1]

\* The rows a backend passes over: gorm writes no OFFSET clause for an
\* offset that is not positive.
Skipped(offset) == IF offset > 0 THEN offset ELSE 0

\* Offset((page - 1) * pageSize).Limit(pageSize) / SetSkip, SetLimit, for a
\* positive pageSize.
PageOf(rows, page, pageSize) ==
  SubSeq(rows, Skipped((page - 1) * pageSize) + 1,
         IF Skipped((page - 1) * pageSize) + pageSize < Len(rows)
         THEN Skipped((page - 1) * pageSize) + pageSize ELSE Len(rows))

\* $set / Updates(map): the record with the fields of data written over it.
SetFields(r, data) ==
  [f \in DOMAIN r \cup DOMAIN data |-> IF f \in DOMAIN data THEN data[f] ELSE r[f]]

\* What an integer column keeps of a JSON number: JSON numbers arrive as
\* float64 and the column stores the integer.
ColumnValue(v) == IF v.t = "float" THEN IntV(v.n) ELSE v

SqlRow(rec) == [f \in DOMAIN rec |-> ColumnValue(rec[f])]

\* RowsAffected of an UPDATE: the MySQL driver reports the rows whose
\* content changed, the other relational drivers the rows the WHERE matched.
RowsAffected(dbType, matched, changed) ==
  IF dbType = "mysql" THEN Cardinality(changed) ELSE Cardinality(matched)

IsMongo(dbType) == dbType = "mongodb"

\* ------------------------------------------------------------------------
\* Adapter operations.  Each takes the table's stored records R and returns
\* the adapter's results together with the records R2 stored afterwards.
\* err is "" (nil), "notfound" (gorm.ErrRecordNotFound, mongo.ErrNoDocuments)
\* or "backend" (an error of the driver).
\* ------------------------------------------------------------------------
\* Count (when the request is filtered) and Find of the records found.
FindPage(found, pk, isFiltered, page, pageSize) ==
  [err |-> "",
   data |-> PageOf(InOrder(found, pk), page, pageSize),
   total |-> IF isFiltered THEN Cardinality(found) ELSE 0]

GormList(tc, R, q, page, pageSize) ==
  FindPage({r \in R : SqlMatches(r, GormListWhere(tc, q))},
           tc.PrimaryKey, FilterKeys(q) # {}, page, pageSize)

\* collection.Find and CountDocuments under the filter built; the server
\* refuses a negative skip.
MongoFind(R, filter, pk, isFiltered, page, pageSize) ==
  IF MongoFilterInvalid(filter) \/ (page - 1) * pageSize < 0
  THEN [err |-> "backend", data |-> <<>>, total |-> 0]
  ELSE FindPage({r \in R : MongoMatches(r, filter)}, pk, isFiltered, page, pageSize)

MongoList(tc, R, q, order, page, pageSize) ==
  MongoFind(R, MongoListFilter(tc, q, order), tc.PrimaryKey, FilterKeys(q) # {},
            page, pageSize)

GormCountAll(tc, R) ==
  Cardinality({r \in R : SqlMatches(r, applyGormSoftDeleteFilter(tc))})

MongoCountAll(tc, R) ==
  Cardinality({r \in R : MongoMatches(r, applyMongoSoftDeleteFilter(EmptyMap, tc))})

\* adapter.CountAll of either adapter.
CountAllOn(dbType, tc, R) ==
  IF IsMongo(dbType) THEN MongoCountAll(tc, R) ELSE GormCountAll(tc, R)

\* Take / FindOne: the first record found, or not-found.
TakeOne(found, pk) ==
  IF found = {} THEN [err |-> "notfound", data |-> <<>>]
  ELSE [err |-> "", data |-> <<InOrder(found, pk)[1]>>]

\* filter is the lookup map of the handler: field name -> value.
GormGetOne(tc, R, filter) ==
  TakeOne({r \in R : SqlMatches(r, applyGormSoftDeleteFilter(tc) \cup GormFilterWhere(filter))},
          tc.PrimaryKey)

\* The bson filter of a lookup map, its _id coerced when coerce holds.
MongoLookup(filter, coerce) ==
  [k \in DOMAIN filter |->
     EqCond(IF coerce /\ k = "_id" THEN ToObjectID(filter[k]) ELSE filter[k])]

\* GetOne coerces _id only in a lookup map of one entry.
MongoGetOne(tc, R, filter) ==
  TakeOne({r \in R :
             MongoMatches(r, applyMongoSoftDeleteFilter(
                               MongoLookup(filter, Cardinality(DOMAIN filter) = 1), tc))},
          tc.PrimaryKey)

\* Updates(data) on the rows matched; count is the existence count the
\* adapter takes when no row was affected.
GormUpdated(dbType, R, matched, data, count) ==
  IF RowsAffected(dbType, matched, {r \in matched : SetFields(r, data) # r}) = 0 /\ count = 0
  THEN [err |-> "notfound", matched |-> 0, modified |-> 0, R2 |-> R]
  ELSE [err |-> "",
        matched |-> RowsAffected(dbType, matched, {r \in matched : SetFields(r, data) # r}),
        modified |-> RowsAffected(dbType, matched, {r \in matched : SetFields(r, data) # r}),
        R2 |-> (R \ matched) \cup {SetFields(r, data) : r \in matched}]

GormUpdateOne(dbType, tc, R, filter, data) ==
  GormUpdated(dbType, R,
              {r \in R : SqlMatches(r, applyGormSoftDeleteFilter(tc)
                                         \cup GormFilterWhere(filter))},
              SqlRow(data),
              Cardinality({r \in R : SqlMatches(r, GormFilterWhere(filter))}))

\* collection.UpdateOne($set) on the first of the documents found; the
\* count taken when nothing matched uses the same filter.
MongoUpdated(R, found, pk, data) ==
  IF found = {}
  THEN [err |-> "notfound", matched |-> 0, modified |-> 0, R2 |-> R]
  ELSE [err |-> "", matched |-> 1,
        modified |-> IF SetFields(InOrder(found, pk)[1], data) # InOrder(found, pk)[1]
                     THEN 1 ELSE 0,
        R2 |-> (R \ {InOrder(found, pk)[1]}) \cup {SetFields(InOrder(found, pk)[1], data)}]

MongoUpdateOne(tc, R, filter, data) ==
  MongoUpdated(R,
               {r \in R : MongoMatches(r, applyMongoSoftDeleteFilter(
                                            MongoLookup(filter, TRUE), tc))},
               tc.PrimaryKey, data)

\* The update a soft delete issues: {softdel_key: marker}.
DeleteMarker(tc, clock) == [k \in {tc.SoftDeleteKey} |-> SoftDeleteValue(tc, clock)]

\* The soft or physical delete of the rows matched.
GormDeleted(dbType, soft, R, matched, updateData) ==
  IF soft
  THEN [err |-> "",
        count |-> RowsAffected(dbType, matched,
                               {r \in matched : SetFields(r, updateData) # r}),
        R2 |-> (R \ matched) \cup {SetFields(r, updateData) : r \in matched}]
  ELSE [err |-> "", count |-> Cardinality(matched), R2 |-> R \ matched]

\* DeleteOne reports not-found when no row was affected and none exists.
GormDeletedOne(res, matched, R) ==
  IF matched = {} THEN [err |-> "notfound", count |-> 0, R2 |-> R] ELSE res

GormDeleteOne(dbType, tc, R, filter, clock) ==
  GormDeletedOne(GormDeleted(dbType, tc.SoftDeleteKey # "", R,
                             {r \in R : SqlMatches(r, GormFilterWhere(filter))},
                             DeleteMarker(tc, clock)),
                 {r \in R : SqlMatches(r, GormFilterWhere(filter))}, R)

\* ids is the sequence of primary-key values of the request body.
GormBatchDelete(dbType, tc, R, ids, clock) ==
  GormDeleted(dbType, tc.SoftDeleteKey # "", R,
              {r \in R : SqlHolds(r, SqlCond(tc.PrimaryKey, "IN", ids))},
              DeleteMarker(tc, clock))

\* UpdateOne($set marker) or DeleteOne on the first of the documents found;
\* the soft delete returns ModifiedCount.
MongoDeletedOne(soft, R, found, pk, updateData) ==
  IF found = {} THEN [err |-> "notfound", count |-> 0, R2 |-> R]
  ELSE IF soft
  THEN [err |-> "",
        count |-> IF SetFields(InOrder(found, pk)[1], updateData) # InOrder(found, pk)[1]
                  THEN 1 ELSE 0,
        R2 |-> (R \ {InOrder(found, pk)[1]})
                 \cup {SetFields(InOrder(found, pk)[1], updateData)}]
  ELSE [err |-> "", count |-> 1, R2 |-> R \ {InOrder(found, pk)[1]}]

MongoDeleteOne(tc, R, filter, clock) ==
  MongoDeletedOne(tc.SoftDeleteKey # "", R,
                  {r \in R : MongoMatches(r, MongoLookup(filter, TRUE))},
                  tc.PrimaryKey, DeleteMarker(tc, clock))

\* UpdateMany($set marker), returning ModifiedCount, or DeleteMany.
MongoDeletedMany(soft, R, found, updateData) ==
  IF soft
  THEN [err |-> "",
        count |-> Cardinality({r \in found : SetFields(r, updateData) # r}),
        R2 |-> (R \ found) \cup {SetFields(r, updateData) : r \in found}]
  ELSE [err |-> "", count |-> Cardinality(found), R2 |-> R \ found]

ConvertedIds(tc, ids) ==
  [i \in 1..Len(ids) |-> IF tc.PrimaryKey = "_id" THEN ToObjectID(ids[i]) ELSE ids[i]]

MongoBatchDelete(tc, R, ids, clock) ==
  MongoDeletedMany(tc.SoftDeleteKey # "", R,
                   {r \in R : MongoMatches(r, MapSet(EmptyMap, tc.PrimaryKey,
                                                     InCond(ConvertedIds(tc, ids))))},
                   DeleteMarker(tc, clock))

\* The record without its primary key: the updateData of a batch update.
WithoutPk(record, pk) == [f \in DOMAIN record \ {pk} |-> record[f]]

\* The rows WHERE pk = idVal finds: a batch update adds no soft-delete
\* condition.
GormRowsOfPk(R, pk, idVal) == {r \in R : SqlHolds(r, SqlCond(pk, "=", <<idVal>>))}

RECURSIVE GormBatchUpdateFrom(_, _, _, _, _, _, _, _)
\* The transaction of gormAdapter.BatchUpdate from record i on: R0 is the
\* table before the transaction, restored when the function returns an
\* error; an UPDATE that names a column the table lacks is an error of the
\* backend.
GormBatchUpdateFrom(dbType, tc, R0, R, cols, records, i, total) ==
  IF i > Len(records)
  THEN [err |-> "", matched |-> total, modified |-> total, R2 |-> R]
  ELSE IF tc.PrimaryKey \notin DOMAIN records[i]
  THEN [err |-> "nopk", matched |-> total, modified |-> total, R2 |-> R0]
  ELSE IF DOMAIN records[i] = {tc.PrimaryKey}
  THEN GormBatchUpdateFrom(dbType, tc, R0, R, cols, records, i + 1, total)
  ELSE IF \E f \in DOMAIN records[i] : f \notin {c.Name : c \in cols}
  THEN [err |-> "backend", matched |-> total, modified |-> total, R2 |-> R0]
  ELSE GormBatchUpdateFrom(
         dbType, tc, R0,
         (R \ GormRowsOfPk(R, tc.PrimaryKey, records[i][tc.PrimaryKey]))
           \cup {SetFields(r, SqlRow(WithoutPk(records[i], tc.PrimaryKey))) :
                   r \in GormRowsOfPk(R, tc.PrimaryKey, records[i][tc.PrimaryKey])},
         cols, records, i + 1,
         total + RowsAffected(dbType,
                   GormRowsOfPk(R, tc.PrimaryKey, records[i][tc.PrimaryKey]),
                   {r \in GormRowsOfPk(R, tc.PrimaryKey, records[i][tc.PrimaryKey]) :
                      SetFields(r, SqlRow(WithoutPk(records[i], tc.PrimaryKey))) # r}))

\* Passes over the rows without primary key.
GormBatchUpdate_SkipsKeyless(dbType, tc, R, cols, records) ==
  LET Keyed(rec) == tc.PrimaryKey \in DOMAIN rec
  IN  GormBatchUpdateFrom(dbType, tc, R, R, cols, SelectSeq(records, Keyed), 1, 0)

RECURSIVE GormBatchUpdate_NoTransaction(_, _, _, _, _)
\* Each row in a statement of its own: an error leaves the earlier rows
\* updated.
GormBatchUpdate_NoTransaction(dbType, tc, R, cols, records) ==
  IF records = <<>> THEN [err |-> "", matched |-> 0, modified |-> 0, R2 |-> R]
  ELSE IF GormBatchUpdateFrom(dbType, tc, R, R, cols, <<records[1]>>, 1, 0).err # ""
  THEN GormBatchUpdateFrom(dbType, tc, R, R, cols, <<records[1]>>, 1, 0)
  ELSE GormBatchUpdate_NoTransaction(
         dbType, tc,
         GormBatchUpdateFrom(dbType, tc, R, R, cols, <<records[1]>>, 1, 0).R2,
         cols, Tail(records))

GormBatchUpdate(dbType, tc, R, cols, records) ==
  GormBatchUpdateFrom(dbType, tc, R, R, cols, records, 1, 0)

\* The documents {pk: idVal} finds, idVal coerced when the key is _id.
MongoDocsOfPk(R, pk, idVal) ==
  {r \in R : MongoMatches(r, MapSet(EmptyMap, pk,
                                     EqCond(IF pk = "_id" THEN ToObjectID(idVal) ELSE idVal)))}

RECURSIVE MongoBatchUpdateFrom(_, _, _, _, _, _)
\* The loop of mongoAdapter.BatchUpdate from record i on: each UpdateOne is
\* applied as it is issued, and an error leaves the earlier ones applied.
MongoBatchUpdateFrom(tc, R, records, i, matched, modified) ==
  IF i > Len(records)
  THEN [err |-> "", matched |-> matched, modified |-> modified, R2 |-> R]
  ELSE IF tc.PrimaryKey \notin DOMAIN records[i]
  THEN [err |-> "nopk", matched |-> matched, modified |-> modified, R2 |-> R]
  ELSE IF DOMAIN records[i] = {tc.PrimaryKey}
          \/ MongoDocsOfPk(R, tc.PrimaryKey, records[i][tc.PrimaryKey]) = {}
  THEN MongoBatchUpdateFrom(tc, R, records, i + 1, matched, modified)
  ELSE MongoBatchUpdateFrom(
         tc,
         MongoUpdated(R, MongoDocsOfPk(R, tc.PrimaryKey, records[i][tc.PrimaryKey]),
                      tc.PrimaryKey, WithoutPk(records[i], tc.PrimaryKey)).R2,
         records, i + 1,
         matched + 1,
         modified + MongoUpdated(R, MongoDocsOfPk(R, tc.PrimaryKey, records[i][tc.PrimaryKey]),
                                 tc.PrimaryKey, WithoutPk(records[i], tc.PrimaryKey)).modified)

MongoBatchUpdate(tc, R, records) == MongoBatchUpdateFrom(tc, R, records, 1, 0, 0)

\* ------------------------------------------------------------------------
\* Creation
\* ------------------------------------------------------------------------
defaultValueNow == StrV(<<"{", "{", "n", "o", "w", "}", "}">>)
defaultValueSnowflake == StrV(<<"{", "{", "s", "n", "o", "w", "f", "l", "a", "k", "e", "}", "}">>)
defaultValueULID == StrV(<<"{", "{", "u", "l", "i", "d", "}", "}">>)
defaultValueUUIDv4 == StrV(<<"{", "{", "u", "u", "i", "d", "v", "4", "}", "}">>)
defaultValueUUIDv7 == StrV(<<"{", "{", "u", "u", "i", "d", "v", "7", "}", "}">>)

\* The templates that stand for a generated identifier.
IdTemplates == {defaultValueSnowflake, defaultValueULID, defaultValueUUIDv4, defaultValueUUIDv7}

\* The k-th identifier a generator hands out: a text no client sends and no
\* other call returns.
GeneratedId(k) == StrV(<<"#">> \o Itoa(k))

\* The value a default stands for at the given time, for the k-th call of
\* the generators.
DefaultOf(defaultValue, clock, k) ==
  IF defaultValue = defaultValueNow THEN TimeV(clock)
  ELSE IF defaultValue \in IdTemplates THEN GeneratedId(k)
  ELSE defaultValue

\* Writes every field of default_values, whatever the record holds.
applyDefaultValues_Always(record, tc, clock, k) ==
  [f \in DOMAIN record \cup DOMAIN tc.DefaultValues |->
     IF f \in DOMAIN tc.DefaultValues THEN DefaultOf(tc.DefaultValues[f], clock, k)
     ELSE record[f]]

\* record[field] = default for every field of default_values the record
\* lacks or holds as nil or "".
applyDefaultValues(record, tc, clock, k) ==
  [f \in DOMAIN record \cup DOMAIN tc.DefaultValues |->
     IF /\ f \in DOMAIN tc.DefaultValues
        /\ (f \notin DOMAIN record \/ record[f] = NullV \/ record[f] = StrV(<<>>))
     THEN DefaultOf(tc.DefaultValues[f], clock, k)
     ELSE record[f]]

\* GetAutoUpdateFields: auto_update as a list of field names (the keys, when
\* the YAML gives a mapping).
GetAutoUpdateFields(tc) == tc.AutoUpdateFields

\* Stamps only the fields the client left out.
applyAutoUpdateFields_KeepClient(record, tc, clock) ==
  [f \in DOMAIN record \cup {GetAutoUpdateFields(tc)[i] : i \in DOMAIN GetAutoUpdateFields(tc)} |->
     IF f \in DOMAIN record THEN record[f] ELSE TimeV(clock)]

\* record[field] = now for every auto-update field.
applyAutoUpdateFields(record, tc, clock) ==
  [f \in DOMAIN record \cup {GetAutoUpdateFields(tc)[i] : i \in DOMAIN GetAutoUpdateFields(tc)} |->
     IF \E i \in DOMAIN GetAutoUpdateFields(tc) : GetAutoUpdateFields(tc)[i] = f
     THEN TimeV(clock) ELSE record[f]]

\* The number 0 written to a date/time column: MySQL stores the zero date
\* (read back as the zero time) or refuses it, by its sql_mode; SQLite keeps
\* the number.  zero is that outcome: "zerodate", "refused" or "kept".
ZeroToTime(typ, v) == isTimeType(typ) /\ v.t \in {"int", "float"} /\ v.n = 0

\* What a relational column of the given declared type stores of a value.
InsertValue(typ, v, zero) ==
  IF ZeroToTime(typ, v) /\ zero = "zerodate" THEN TimeV(0) ELSE ColumnValue(v)

\* The outcomes a backend of the given type can produce.
ZeroDateOutcomes(dbType) ==
  IF dbType = "mysql" THEN {"zerodate", "refused"} ELSE {"kept"}

ColumnType(cols, f) == (CHOOSE c \in cols : c.Name = f).Type

TypeBigint == <<"b", "i", "g", "i", "n", "t">>

\* The Go value Find and Take into map[string]interface{} deliver for the
\* NOT NULL integer column of a primary key: the scan type of the driver,
\* int64 for a BIGINT and for every SQLite integer, int32 for a MySQL INT.
ScannedPk(dbType, typ, id) ==
  IF dbType = "mysql" /\ ~Contains(typ, TypeBigint) THEN Int32V(id) ELSE IntV(id)

\* The row an INSERT of the record stores under the given id, as the driver
\* delivers it: an absent column is NULL.
InsertedRow(dbType, cols, pk, id, record, zero) ==
  [f \in {c.Name : c \in cols} |->
     IF f = pk THEN ScannedPk(dbType, ColumnType(cols, pk), id)
     ELSE IF f \in DOMAIN record THEN InsertValue(ColumnType(cols, f), record[f], zero)
     ELSE NullV]

\* Create(&records) on a table with columns cols (a set of [Name, Type]):
\* the rows get the next auto-increment ids, and gorm writes the generated
\* id back into each map under "@id".
GormBatchCreate(dbType, tc, R, cols, n, records, zero) ==
  IF \E i \in 1..Len(records) : \E c \in cols :
       /\ c.Name \in DOMAIN records[i]
       /\ ZeroToTime(c.Type, records[i][c.Name])
       /\ zero = "refused"
  THEN [err |-> "backend", ids |-> <<>>, records |-> <<>>, R2 |-> R]
  ELSE [err |-> "", ids |-> <<>>,
        records |-> [i \in 1..Len(records) |->
                       SetFields(records[i], [k \in {"@id"} |-> IntV(n + i)])],
        R2 |-> R \cup {InsertedRow(dbType, cols, tc.PrimaryKey, n + i, records[i], zero) :
                         i \in 1..Len(records)}]

\* InsertMany: the driver generates an ObjectID for each document and
\* returns them; the maps of the caller are not written.
MongoBatchCreate(tc, R, n, records) ==
  [err |-> "",
   ids |-> [i \in 1..Len(records) |-> OidV(OidHex(n + i))],
   records |-> records,
   R2 |-> R \cup {SetFields(records[i], [k \in {"_id"} |-> OidV(OidHex(n + i))]) :
                    i \in 1..Len(records)}]

\* The type switch on the primary key: an int64, a float64 or an int becomes
\* its decimal text, a value of any other type stays.
PkToString(obj, pk) ==
  [f \in DOMAIN obj |->
     IF f = pk /\ obj[f].t \in {"int", "float"} THEN StrV(Itoa(obj[f].n)) ELSE obj[f]]

\* fixPkFieldToString on one flat object: "@id" becomes the primary key, and
\* a numeric primary key becomes its decimal text.
fixPkFieldToString(obj, pk) ==
  PkToString(IF "@id" \in DOMAIN obj
             THEN [f \in (DOMAIN obj \ {"@id"}) \cup {pk} |->
                     IF f = pk THEN obj["@id"] ELSE obj[f]]
             ELSE obj,
             pk)

fixPkFieldsToString(objs, pk) == [i \in 1..Len(objs) |-> fixPkFieldToString(objs[i], pk)]

\* ------------------------------------------------------------------------
\* Configuration
\* ------------------------------------------------------------------------
\* Texts of the model: database and table names, column types.
NameA == <<"a">>
NameT == <<"t">>
NameZ == <<"z">>
TypeInt == <<"i", "n", "t">>
TypeTinyint == <<"t", "i", "n", "y", "i", "n", "t">>
TypeDatetime == <<"d", "a", "t", "e", "t", "i", "m", "e">>

\* The column sets of the relational tables of the model.
PlainColumns == {[Name |-> "id", Type |-> TypeInt], [Name |-> "v", Type |-> TypeInt]}

SqlColumnSets ==
  { PlainColumns,
    PlainColumns \cup {[Name |-> "is_deleted", Type |-> TypeTinyint]},
    PlainColumns \cup {[Name |-> "deleted_time", Type |-> TypeDatetime]} }

\* A hand-written table configuration of a collection (a tableConfig read
\* from the YAML file).
MongoTableConfig(name, key, typ, dflt) ==
  [Name |-> name, Alias |-> name, PrimaryKey |-> "_id",
   SoftDeleteKey |-> key, SoftDeleteType |-> typ,
   DefaultValues |-> [k \in {key} |-> dflt],
   UniqueKeys |-> <<>>, AutoUpdateFields |-> <<>>]

\* The table configurations a collection is served under: the generated
\* ones (no soft-delete field sampled, is_deleted, deleted_time) and two
\* hand-written ones.
MongoTableConfigs(name) ==
  { MongoTableMeta(name, {"_id", "v"}),
    MongoTableMeta(name, {"_id", "v", "is_deleted"}),
    MongoTableMeta(name, {"_id", "v", "deleted_time"}),
    MongoTableConfig(name, "is_deleted", softDeleteTypeBoolean, BoolV(FALSE)),
    MongoTableConfig(name, "is_deleted", softDeleteTypeInt, IntV(0)) }

\* One database: its type, its served tables and, for a relational
\* database, the columns of each table.
SqlDatabase(dbType, name, cols) ==
  [Type |-> dbType, Tables |-> <<SqlTableMeta(name, cols)>>,
   Columns |-> [x \in {name} |-> cols]]

MongoDatabase(tc) ==
  [Type |-> "mongodb", Tables |-> <<tc>>, Columns |-> [x \in {tc.Name} |-> {}]]

\* dmConfig.Databases with a single database "a" serving a single table "t".
SingleTableConfigs ==
  {[d \in {NameA} |-> SqlDatabase(ty, NameT, cols)] :
      ty \in {"mysql", "sqlite"}, cols \in SqlColumnSets}
  \cup {[d \in {NameA} |-> MongoDatabase(tc)] : tc \in MongoTableConfigs(NameT)}

\* ------------------------------------------------------------------------
\* State
\* ------------------------------------------------------------------------
VARIABLES
  config,       \* dm.config.Databases: database alias -> database
  store,        \* the backends: database alias -> table name -> records
  nextId,       \* database alias -> table name -> records inserted so far
  now,          \* the clock time.Now() reads
  tableCounts,  \* dm.tableCounts: cache key -> count
  counter,      \* the refresher goroutine: where it stands and what is left
  dirty,        \* history: a write was served since the refresher last began a pass
  resp,         \* the last response sent
  paging,       \* dm.config: DefaultPage, DefaultPageSize, MaxPageSize
  boot,         \* the startup: its position, the configuration directory, the backends
  sched,        \* utils.Scheduler: cron, jobs, mu, and the calls in progress
  kv            \* utils.KVStore: the entries of the badger database and its clock

vars ==
  <<config, store, nextId, now, tableCounts, counter, dirty, resp, paging, boot, sched, kv>>

\* fmt.Sprintf("%s_%s", dbName, alias)
CountKey(dbName, alias) == dbName \o <<"_">> \o alias

HasTable(cfg, dbName, tableAlias) ==
  /\ dbName \in DOMAIN cfg
  /\ \E i \in DOMAIN cfg[dbName].Tables : cfg[dbName].Tables[i].Alias = tableAlias

\* The first table of the list that carries the alias.
FirstWithAlias(tables, tableAlias) ==
  tables[CHOOSE k \in DOMAIN tables :
           /\ tables[k].Alias = tableAlias
           /\ \A j \in 1..(k - 1) : tables[j].Alias # tableAlias]

getAdapterAndTableConfig(cfg, dbName, tableAlias) ==
  FirstWithAlias(cfg[dbName].Tables, tableAlias)

\* A response.  Every response has the same shape: the operation and its
\* request (db, tbl, id, q, order), the HTTP status, and the body: the
\* records (data), total, and count (matched_count or deleted_count).
Response(op, dbName, tableAlias, id, q, order, status, data, total, count) ==
  [op |-> op, db |-> dbName, tbl |-> tableAlias, id |-> id, q |-> q, order |-> order,
   status |-> status, data |-> data, total |-> total, count |-> count]

NoQuery == [k \in {} |-> <<>>]

\* page and page_size of a list request.
PageArg(p) == IF p <= 0 THEN paging.DefaultPage ELSE p

\* Falls back to the default first and cuts at max_page_size then.
PageSizeArg(p) ==
  IF (IF p <= 0 THEN paging.DefaultPageSize ELSE p) > paging.MaxPageSize
  THEN paging.MaxPageSize
  ELSE IF p <= 0 THEN paging.DefaultPageSize ELSE p

PageOfQuery(q) == PageArg(Atoi(QueryOr(q, queryParamPage, Itoa(paging.DefaultPage))))

PageSizeOfQuery(q) ==
  PageSizeArg(Atoi(QueryOr(q, queryParamPageSize, Itoa(paging.DefaultPageSize))))

\* What handleList answers from the result of the adapter: an unfiltered
\* request takes its total from the cache when the cache has the key.
ListReply(res, counts, key, isFiltered, pk) ==
  IF res.err # "" THEN [status |-> 500, data |-> <<>>, total |-> 0]
  ELSE [status |-> 200,
        data |-> fixPkFieldsToString(res.data, pk),
        total |-> IF ~isFiltered /\ key \in DOMAIN counts THEN counts[key] ELSE res.total]

ListOn(dbType, tc, tables, counts, key, q, order) ==
  ListReply(IF IsMongo(dbType)
            THEN MongoList(tc, tables[tc.Name], q, order, PageOfQuery(q), PageSizeOfQuery(q))
            ELSE GormList(tc, tables[tc.Name], q, PageOfQuery(q), PageSizeOfQuery(q)),
            counts, key, FilterKeys(q) # {}, tc.PrimaryKey)

\* The body of handleList after the table lookup: [status, data, total].
ListResult(cfg, st, counts, dbName, tableAlias, q, order) ==
  ListOn(cfg[dbName].Type, getAdapterAndTableConfig(cfg, dbName, tableAlias),
         st[dbName], counts, CountKey(dbName, tableAlias), q, order)

\* The lookup map of the single-record handlers when the request carries no
\* ?key=: {primary key: id}.
PkFilter(tc, id) == [k \in {tc.PrimaryKey} |-> StrV(id)]

\* The field names of the model.
FieldNames == {"id", "_id", "v", "w", "is_deleted", "deleted_time", "updated_at"}

\* The field a text names.
FieldNamed(text) == CHOOSE f \in FieldNames : NameText(f) = text

\* parseKeyFields: the trimmed parts of ?key=, none when it is blank.
parseKeyFields(keyParam) ==
  IF TrimSpace(keyParam) = <<>> THEN <<>>
  ELSE [i \in 1..Len(Split(TrimSpace(keyParam), ",")) |->
          TrimSpace(Split(TrimSpace(keyParam), ",")[i])]

\* GetUniqueKeys: unique_keys as a list of groups, each a list of field
\* names (a scalar entry of the YAML list is a group of one field).
GetUniqueKeys(tc) == tc.UniqueKeys

\* A group of the same length holding the same fields in any order.
IsValidKeyCombination_AnyOrder(tc, fields) ==
  \E g \in DOMAIN GetUniqueKeys(tc) :
    /\ Len(GetUniqueKeys(tc)[g]) = Len(fields)
    /\ \A i \in DOMAIN fields :
         \E j \in DOMAIN fields : NameText(GetUniqueKeys(tc)[g][j]) = fields[i]

IsValidKeyCombination(tc, fields) ==
  \E g \in DOMAIN GetUniqueKeys(tc) :
    /\ Len(GetUniqueKeys(tc)[g]) = Len(fields)
    /\ \A i \in DOMAIN fields : NameText(GetUniqueKeys(tc)[g][i]) = fields[i]

\* filter[f] = vals[i] for i, f := range keyFields: a later entry of the same
\* field overwrites an earlier one.
KeyFilter(keyFields, vals) ==
  [f \in {FieldNamed(keyFields[i]) : i \in DOMAIN keyFields} |->
     StrV(vals[CHOOSE i \in DOMAIN keyFields :
                 /\ FieldNamed(keyFields[i]) = f
                 /\ \A j \in DOMAIN keyFields : FieldNamed(keyFields[j]) = f => j <= i])]

\* The lookup of handleGetOne, handleUpdateOne and handleDeleteOne out of
\* ?key= and :id: [status, filter], status 0 when the lookup map was built.
LookupOf(tc, keyFields, vals, id) ==
  IF keyFields # <<>>
  THEN IF ~IsValidKeyCombination(tc, keyFields) \/ Len(vals) # Len(keyFields)
       THEN [status |-> 400, filter |-> EmptyMap]
       ELSE [status |-> 0, filter |-> KeyFilter(keyFields, vals)]
  ELSE IF tc.PrimaryKey = "" THEN [status |-> 500, filter |-> EmptyMap]
  ELSE [status |-> 0, filter |-> PkFilter(tc, id)]

Lookup(tc, keyParam, id) == LookupOf(tc, parseKeyFields(keyParam), parseStringList(id), id)

GetOneReply(res, pk) ==
  IF res.err = "notfound" THEN [status |-> 404, data |-> <<>>]
  ELSE [status |-> 200, data |-> fixPkFieldsToString(res.data, pk)]

GetOneOn(dbType, tc, R, look) ==
  IF look.status # 0 THEN [status |-> look.status, data |-> <<>>]
  ELSE GetOneReply(IF IsMongo(dbType) THEN MongoGetOne(tc, R, look.filter)
                   ELSE GormGetOne(tc, R, look.filter),
                   tc.PrimaryKey)

GetOneAt(dbType, tc, tables, keyParam, id) ==
  GetOneOn(dbType, tc, tables[tc.Name], Lookup(tc, keyParam, id))

\* The body of handleGetOne after the table lookup: [status, data].
GetOneKeyResult(cfg, st, dbName, tableAlias, keyParam, id) ==
  GetOneAt(cfg[dbName].Type, getAdapterAndTableConfig(cfg, dbName, tableAlias),
           st[dbName], keyParam, id)

\* The same for a request without ?key=.
GetOneResult(cfg, st, dbName, tableAlias, id) ==
  GetOneKeyResult(cfg, st, dbName, tableAlias, <<>>, id)

\* ------------------------------------------------------------------------
\* Request inputs
\* ------------------------------------------------------------------------
\* The :id path segments a client sends: the keys the backend hands out.
PathIds(dbType) ==
  IF IsMongo(dbType) THEN {OidHex(i) : i \in 1..MaxRows} ELSE {Itoa(i) : i \in 1..MaxRows}

TableAliases(cfg, dbName) ==
  {cfg[dbName].Tables[i].Alias : i \in DOMAIN cfg[dbName].Tables} \cup {NameZ}

TextTrue == <<"t", "r", "u", "e">>
TextFalse == <<"f", "a", "l", "s", "e">>

\* One query parameter.
Param(key, value) == [k \in {key} |-> value]

\* The list queries of the store specification: none, one page of one, the
\* primary key of a record, and the soft-delete key asked for as set.
StoreQueries(dbType, tc) ==
  {NoQuery, Param(queryParamPageSize, <<"1">>)}
  \cup {Param(<<tc.PrimaryKey, "">>, id) : id \in PathIds(dbType)}
  \cup (IF tc.SoftDeleteKey = "" THEN {}
        ELSE { Param(<<tc.SoftDeleteKey, "">>, TextTrue),
               Param(<<tc.SoftDeleteKey, "">>, <<"1">>),
               Param(<<tc.SoftDeleteKey, "__isnull">>, TextFalse) })

\* The filter values of the model: two numbers, a boolean and a number with
\* a leading space.
FilterTexts == {<<"1">>, <<"2">>, TextTrue, <<" ", "2">>}

FieldV == <<"v", "">>

\* ?v__gte=x&v__lte=x
RangeQuery(x) == [k \in {<<"v", "__gte">>, <<"v", "__lte">>} |-> x]

\* ?v__in=a,b
InQuery(a, b) == Param(<<"v", "__in">>, a \o <<",">> \o b)

FilterQueries(dbType, tc) ==
  {Param(FieldV, x) : x \in FilterTexts}
  \cup {RangeQuery(x) : x \in FilterTexts}
  \cup {InQuery(a, b) : a \in FilterTexts, b \in FilterTexts}
  \cup {Param(<<"v", "__between">>, <<"1", ",", "2">>)}

\* The list queries of the count specification: unfiltered ones, a filter
\* on the data field with and without a page size, and the soft-delete key
\* asked for as set.
CountQueries(dbType, tc) ==
  { NoQuery, Param(queryParamPageSize, <<"1">>), Param(FieldV, <<"1">>),
    [k \in {FieldV, queryParamPageSize} |-> <<"1">>] }
  \cup (IF tc.SoftDeleteKey = "" THEN {} ELSE {Param(<<tc.SoftDeleteKey, "">>, <<"1">>)})

queryPage(x) == Param(queryParamPage, x)

\* The list queries of the paging specification: no parameter, page and
\* page_size as a number, as 0 and as a text that is no number, and both.
PagingQueries ==
  { NoQuery, queryPage(<<"2">>), queryPage(<<"0">>), queryPage(<<"x">>),
    Param(queryParamPageSize, <<"1">>), Param(queryParamPageSize, <<"0">>),
    Param(queryParamPageSize, <<"5">>),
    [k \in {queryParamPage, queryParamPageSize} |->
       IF k = queryParamPage THEN <<"2">> ELSE <<"1">>] }

\* The list queries of a specification.
ListQueries(kind, dbType, tc) ==
  CASE kind = "filter" -> FilterQueries(dbType, tc)
    [] kind = "paging" -> PagingQueries
    [] kind = "count" -> CountQueries(dbType, tc)
    [] OTHER -> StoreQueries(dbType, tc)

\* The JSON object of a create or an update.
BodyRecords == {[k \in {"v"} |-> FloatV(x)] : x \in 1..2}

\* The JSON objects sent to a table with unique keys: a number v, a text w,
\* and an update that names an auto-update field itself.
KeyRecords == {[v |-> FloatV(1), w |-> StrV(<<"1">>)], [v |-> FloatV(2), w |-> StrV(<<"2">>)]}

KeyUpdates ==
  { [v |-> FloatV(2)], [v |-> FloatV(2), w |-> StrV(<<"1">>)],
    [v |-> FloatV(1), updated_at |-> StrV(<<"1">>)] }

\* The bodies of a single update: one object, possibly empty.
UpdateBodies(tc) ==
  {EmptyMap} \cup (IF tc.UniqueKeys = <<>> THEN BodyRecords ELSE KeyUpdates)

queryParamKey == <<"key", "">>

\* The query of a single-record request: ?key= when it carries one.
KeyQuery(keyParam) == IF keyParam = <<>> THEN NoQuery ELSE Param(queryParamKey, keyParam)

\* The ?key= texts and the :id segments of the keyed requests sent to a
\* table: to one without unique keys, a single request.
KeyTexts(tc) ==
  IF tc.UniqueKeys = <<>> THEN {<<"v">>}
  ELSE {<<"v", ",", "w">>, <<"w", ",", "v">>, <<"w">>, <<" ", "v", ",", " ", "w">>, <<"v">>}

KeyIds(tc) ==
  IF tc.UniqueKeys = <<>> THEN {<<"1">>}
  ELSE {<<"1", ",", "1">>, <<"2">>, <<"1", ",", "2", ",", "1">>}

\* The single-record requests a client sends: [key, id].
Lookups(dbType, tc) ==
  {[key |-> <<>>, id |-> id] : id \in PathIds(dbType)}
  \cup {[key |-> k, id |-> id] : k \in KeyTexts(tc), id \in KeyIds(tc)}

\* ------------------------------------------------------------------------
\* Write handlers, after the table lookup and the binding of the JSON body
\* ------------------------------------------------------------------------
UpdateOneReply(res, updateData, R) ==
  IF DOMAIN updateData = {} THEN [status |-> 400, count |-> 0, R2 |-> R]
  ELSE IF res.err = "notfound" THEN [status |-> 404, count |-> 0, R2 |-> R]
  ELSE [status |-> 200, count |-> res.matched, R2 |-> res.R2]

\* updateData is the body without the fields of the lookup map, stamped the
\* same after applyAutoUpdateFields.
UpdateOneOn(dbType, tc, R, filter, updateData, stamped) ==
  UpdateOneReply(IF IsMongo(dbType) THEN MongoUpdateOne(tc, R, filter, stamped)
                 ELSE GormUpdateOne(dbType, tc, R, filter, stamped),
                 updateData, R)

\* delete(updateData, k) for every k of the lookup map.
WithoutFilterFields(body, filter) == [f \in DOMAIN body \ DOMAIN filter |-> body[f]]

\* The update data handleUpdateOne hands to the adapter.
UpdateDataOf(tc, clock, filter, body) ==
  applyAutoUpdateFields(WithoutFilterFields(body, filter), tc, clock)

UpdateOneWith(dbType, tc, R, clock, look, body) ==
  IF look.status # 0 THEN [status |-> look.status, count |-> 0, R2 |-> R]
  ELSE UpdateOneOn(dbType, tc, R, look.filter, WithoutFilterFields(body, look.filter),
                   UpdateDataOf(tc, clock, look.filter, body))

UpdateOneAt(dbType, tc, tables, clock, keyParam, id, body) ==
  UpdateOneWith(dbType, tc, tables[tc.Name], clock, Lookup(tc, keyParam, id), body)

\* handleUpdateOne: [status, count, R2].
UpdateOneKeyResult(cfg, st, clock, dbName, tableAlias, keyParam, id, body) ==
  UpdateOneAt(cfg[dbName].Type, getAdapterAndTableConfig(cfg, dbName, tableAlias),
              st[dbName], clock, keyParam, id, body)

\* The same for a request without ?key=.
UpdateOneResult(cfg, st, dbName, tableAlias, id, body) ==
  UpdateOneKeyResult(cfg, st, now, dbName, tableAlias, <<>>, id, body)

DeleteOneReply(res, R) ==
  IF res.err = "notfound" THEN [status |-> 404, count |-> 0, R2 |-> R]
  ELSE [status |-> 200, count |-> res.count, R2 |-> res.R2]

DeleteOneOn(dbType, tc, R, clock, look) ==
  IF look.status # 0 THEN [status |-> look.status, count |-> 0, R2 |-> R]
  ELSE DeleteOneReply(IF IsMongo(dbType) THEN MongoDeleteOne(tc, R, look.filter, clock)
                      ELSE GormDeleteOne(dbType, tc, R, look.filter, clock),
                      R)

DeleteOneAt(dbType, tc, tables, clock, keyParam, id) ==
  DeleteOneOn(dbType, tc, tables[tc.Name], clock, Lookup(tc, keyParam, id))

\* handleDeleteOne: [status, count, R2].
DeleteOneKeyResult(cfg, st, clock, dbName, tableAlias, keyParam, id) ==
  DeleteOneAt(cfg[dbName].Type, getAdapterAndTableConfig(cfg, dbName, tableAlias),
              st[dbName], clock, keyParam, id)

\* The same for a request without ?key=.
DeleteOneResult(cfg, st, clock, dbName, tableAlias, id) ==
  DeleteOneKeyResult(cfg, st, clock, dbName, tableAlias, <<>>, id)

BatchDeleteReply(res, noKey, ids, R) ==
  IF noKey \/ ids = <<>> THEN [status |-> 400, count |-> 0, R2 |-> R]
  ELSE [status |-> 200, count |-> res.count, R2 |-> res.R2]

BatchDeleteOn(dbType, tc, R, clock, ids) ==
  BatchDeleteReply(IF IsMongo(dbType) THEN MongoBatchDelete(tc, R, ids, clock)
                   ELSE GormBatchDelete(dbType, tc, R, ids, clock),
                   tc.PrimaryKey = "", ids, R)

\* handleBatchDelete for a body that is an array of ids: [status, count, R2].
BatchDeleteResult(cfg, st, clock, dbName, tableAlias, ids) ==
  BatchDeleteOn(cfg[dbName].Type, getAdapterAndTableConfig(cfg, dbName, tableAlias),
                st[dbName][getAdapterAndTableConfig(cfg, dbName, tableAlias).Name],
                clock, ids)

\* updatedRecords[i][pk] = id, when the adapter returned the inserted ids.
WithInsertedIds(ids, updatedRecords, pk) ==
  IF ids # <<>> /\ Len(ids) = Len(updatedRecords)
  THEN [i \in 1..Len(updatedRecords) |->
          SetFields(updatedRecords[i], [k \in {pk} |-> ids[i]])]
  ELSE updatedRecords

BatchCreateReply(res, records, pk, R) ==
  IF records = <<>> THEN [status |-> 400, data |-> <<>>, R2 |-> R]
  ELSE IF res.err # "" THEN [status |-> 500, data |-> <<>>, R2 |-> R]
  ELSE [status |-> 201,
        data |-> fixPkFieldsToString(WithInsertedIds(res.ids, res.records, pk), pk),
        R2 |-> res.R2]

BatchCreateOn(dbType, tc, R, cols, n, records, defaulted, zero) ==
  BatchCreateReply(IF IsMongo(dbType) THEN MongoBatchCreate(tc, R, n, defaulted)
                   ELSE GormBatchCreate(dbType, tc, R, cols, n, defaulted, zero),
                   records, tc.PrimaryKey, R)

BatchCreateAt(db, tc, tables, n, records, zero) ==
  BatchCreateOn(db.Type, tc, tables[tc.Name], db.Columns[tc.Name], n, records,
                [i \in 1..Len(records) |-> applyDefaultValues(records[i], tc, now, n + i)],
                zero)

\* handleBatchCreate; n is the number of records the table was given so
\* far: [status, data, R2].
BatchCreateResult(cfg, st, n, dbName, tableAlias, records, zero) ==
  BatchCreateAt(cfg[dbName], getAdapterAndTableConfig(cfg, dbName, tableAlias),
                st[dbName], n, records, zero)

\* Every error of the adapter is answered 400.
BatchUpdateReply(res, R) ==
  IF res.err # "" THEN [status |-> 400, count |-> 0, R2 |-> res.R2]
  ELSE [status |-> 200, count |-> res.matched, R2 |-> res.R2]

\* stamped are the records after applyAutoUpdateFields.
BatchUpdateOn(dbType, tc, R, cols, records, stamped) ==
  IF tc.PrimaryKey = "" \/ records = <<>> THEN [status |-> 400, count |-> 0, R2 |-> R]
  ELSE BatchUpdateReply(IF IsMongo(dbType) THEN MongoBatchUpdate(tc, R, stamped)
                        ELSE GormBatchUpdate(dbType, tc, R, cols, stamped),
                        R)

BatchUpdateAt(db, tc, tables, clock, records) ==
  BatchUpdateOn(db.Type, tc, tables[tc.Name], db.Columns[tc.Name], records,
                [i \in 1..Len(records) |-> applyAutoUpdateFields(records[i], tc, clock)])

\* handleBatchUpdate with a body that is a JSON array of objects:
\* [status, count, R2].
BatchUpdateResult(cfg, st, clock, dbName, tableAlias, records) ==
  BatchUpdateAt(cfg[dbName], getAdapterAndTableConfig(cfg, dbName, tableAlias),
                st[dbName], clock, records)

\* ------------------------------------------------------------------------
\* Handlers
\* ------------------------------------------------------------------------
\* The 404 of a request whose database or table is not configured.
NoTable(op, dbName, tableAlias) ==
  Response(op, dbName, tableAlias, <<>>, NoQuery, <<>>, 404, <<>>, 0, 0)

ListSent(dbName, tableAlias, q, order, r) ==
  resp' = Response("List", dbName, tableAlias, <<>>, q, order, r.status, r.data, r.total, 0)

\* The orders in which the adapter may visit the query parameters: the
\* document adapter ranges over a Go map; the conjuncts of the relational
\* adapter commute.
VisitOrders(dbType, q) == IF IsMongo(dbType) THEN KeyOrders(FilterKeys(q)) ELSE {<<>>}

\* GET /:database/:table with a query out of the list queries of the
\* specification.
handleList(kind) ==
  /\ \E dbName \in DOMAIN config : \E tableAlias \in TableAliases(config, dbName) :
       IF ~HasTable(config, dbName, tableAlias)
       THEN resp' = NoTable("List", dbName, tableAlias)
       ELSE \E q \in ListQueries(kind, config[dbName].Type,
                                  getAdapterAndTableConfig(config, dbName, tableAlias)) :
            \E order \in VisitOrders(config[dbName].Type, q) :
              ListSent(dbName, tableAlias, q, order,
                       ListResult(config, store, tableCounts, dbName, tableAlias, q, order))
  /\ UNCHANGED <<config, paging, sched, kv, boot, store, nextId, now, tableCounts, counter, dirty>>

GetOneSent(dbName, tableAlias, l, r) ==
  resp' = Response("GetOne", dbName, tableAlias, l.id, KeyQuery(l.key), <<>>,
                   r.status, r.data, 0, 0)

\* GET /:database/:table/:id, with or without ?key=
handleGetOne ==
  /\ \E dbName \in DOMAIN config : \E tableAlias \in TableAliases(config, dbName) :
       IF ~HasTable(config, dbName, tableAlias)
       THEN resp' = NoTable("GetOne", dbName, tableAlias)
       ELSE \E l \in Lookups(config[dbName].Type,
                              getAdapterAndTableConfig(config, dbName, tableAlias)) :
              GetOneSent(dbName, tableAlias, l,
                         GetOneKeyResult(config, store, dbName, tableAlias, l.key, l.id))
  /\ UNCHANGED <<config, paging, sched, kv, boot, store, nextId, now, tableCounts, counter, dirty>>

\* The effect of a write on the backend of one table.
Stored(dbName, tableName, R2) ==
  /\ store' = [store EXCEPT ![dbName][tableName] = R2]
  /\ dirty' = (dirty \/ R2 # store[dbName][tableName])

\* The response of a write and its effect on the backend.
WriteSent(op, dbName, tableAlias, tableName, id, q, r) ==
  /\ resp' = Response(op, dbName, tableAlias, id, q, <<>>, r.status, <<>>, 0, r.count)
  /\ Stored(dbName, tableName, r.R2)

CreateSent(dbName, tableAlias, tableName, n, len, r) ==
  /\ resp' = Response("BatchCreate", dbName, tableAlias, <<>>, NoQuery, <<>>,
                      r.status, r.data, 0, 0)
  /\ Stored(dbName, tableName, r.R2)
  /\ nextId' = [nextId EXCEPT ![dbName][tableName] = IF r.status = 201 THEN n + len ELSE n]

\* POST /:database/:table with a body of one record out of Bodies, or of
\* none.  A table is given at most MaxRows records.
handleBatchCreate(Bodies) ==
  /\ \E dbName \in DOMAIN config : \E tableAlias \in TableAliases(config, dbName) :
       IF ~HasTable(config, dbName, tableAlias)
       THEN resp' = NoTable("BatchCreate", dbName, tableAlias)
            /\ UNCHANGED <<store, nextId, dirty>>
       ELSE \E records \in {<<>>} \cup {<<rec>> : rec \in Bodies} :
            \E zero \in ZeroDateOutcomes(config[dbName].Type) :
              /\ nextId[dbName][getAdapterAndTableConfig(config, dbName, tableAlias).Name]
                   + Len(records) <= MaxRows
              /\ CreateSent(dbName, tableAlias,
                            getAdapterAndTableConfig(config, dbName, tableAlias).Name,
                            nextId[dbName][getAdapterAndTableConfig(config, dbName, tableAlias).Name],
                            Len(records),
                            BatchCreateResult(config, store,
                              nextId[dbName][getAdapterAndTableConfig(config, dbName, tableAlias).Name],
                              dbName, tableAlias, records, zero))
  /\ UNCHANGED <<config, paging, sched, kv, boot, now, tableCounts, counter>>

\* PUT /:database/:table/:id, with or without ?key=, with a body of one
\* object, possibly empty.
handleUpdateOne ==
  /\ \E dbName \in DOMAIN config : \E tableAlias \in TableAliases(config, dbName) :
       IF ~HasTable(config, dbName, tableAlias)
       THEN resp' = NoTable("UpdateOne", dbName, tableAlias) /\ UNCHANGED <<store, dirty>>
       ELSE \E l \in Lookups(config[dbName].Type,
                              getAdapterAndTableConfig(config, dbName, tableAlias)) :
            \E body \in UpdateBodies(getAdapterAndTableConfig(config, dbName, tableAlias)) :
              WriteSent("UpdateOne", dbName, tableAlias,
                        getAdapterAndTableConfig(config, dbName, tableAlias).Name,
                        l.id, KeyQuery(l.key),
                        UpdateOneKeyResult(config, store, now, dbName, tableAlias,
                                           l.key, l.id, body))
  /\ UNCHANGED <<config, paging, sched, kv, boot, nextId, now, tableCounts, counter>>

\* DELETE /:database/:table/:id, with or without ?key=
handleDeleteOne ==
  /\ \E dbName \in DOMAIN config : \E tableAlias \in TableAliases(config, dbName) :
       IF ~HasTable(config, dbName, tableAlias)
       THEN resp' = NoTable("DeleteOne", dbName, tableAlias) /\ UNCHANGED <<store, dirty>>
       ELSE \E l \in Lookups(config[dbName].Type,
                              getAdapterAndTableConfig(config, dbName, tableAlias)) :
              WriteSent("DeleteOne", dbName, tableAlias,
                        getAdapterAndTableConfig(config, dbName, tableAlias).Name,
                        l.id, KeyQuery(l.key),
                        DeleteOneKeyResult(config, store, now, dbName, tableAlias,
                                           l.key, l.id))
  /\ UNCHANGED <<config, paging, sched, kv, boot, nextId, now, tableCounts, counter>>

\* A primary key as the JSON value a client sends in an id array.
BodyId(dbType, i) == IF IsMongo(dbType) THEN StrV(OidHex(i)) ELSE FloatV(i)

\* The id arrays a client sends to a batch delete: none, one or two ids.
BodyIds(dbType) ==
  {<<>>} \cup {<<BodyId(dbType, i)>> : i \in 1..MaxRows}
         \cup {<<BodyId(dbType, i), BodyId(dbType, j)>> : i \in 1..MaxRows, j \in 1..MaxRows}

\* POST /:database/:table/batch_delete with a body that is an array of ids.
handleBatchDelete ==
  /\ \E dbName \in DOMAIN config : \E tableAlias \in TableAliases(config, dbName) :
       IF ~HasTable(config, dbName, tableAlias)
       THEN resp' = NoTable("BatchDelete", dbName, tableAlias) /\ UNCHANGED <<store, dirty>>
       ELSE \E ids \in BodyIds(config[dbName].Type) :
              WriteSent("BatchDelete", dbName, tableAlias,
                        getAdapterAndTableConfig(config, dbName, tableAlias).Name, ids,
                        NoQuery,
                        BatchDeleteResult(config, store, now, dbName, tableAlias, ids))
  /\ UNCHANGED <<config, paging, sched, kv, boot, nextId, now, tableCounts, counter>>

\* The rows a client sends to a batch update of a table: an update of the
\* first record, a row without primary key, a row naming a field x the
\* table does not have, and an update of the second record that names an
\* auto-update field itself.
UpdateRows(dbType, tc) ==
  { [f \in {tc.PrimaryKey, "v"} |-> IF f = "v" THEN FloatV(2) ELSE BodyId(dbType, 1)],
    [f \in {"v"} |-> FloatV(2)],
    [f \in {tc.PrimaryKey, "x"} |-> IF f = "x" THEN FloatV(1) ELSE BodyId(dbType, 1)],
    [f \in {tc.PrimaryKey, "v", "updated_at"} |->
       IF f = "v" THEN FloatV(1)
       ELSE IF f = "updated_at" THEN StrV(<<"1">>) ELSE BodyId(dbType, MaxRows)] }

\* The bodies of a batch update: an array of none, one or two rows.
BatchBodies(dbType, tc) ==
  {<<>>} \cup {<<a>> : a \in UpdateRows(dbType, tc)}
         \cup {<<a, b>> : a \in UpdateRows(dbType, tc), b \in UpdateRows(dbType, tc)}

\* PUT /:database/:table with a body that is an array of rows.
handleBatchUpdate ==
  /\ \E dbName \in DOMAIN config : \E tableAlias \in TableAliases(config, dbName) :
       IF ~HasTable(config, dbName, tableAlias)
       THEN resp' = NoTable("BatchUpdate", dbName, tableAlias) /\ UNCHANGED <<store, dirty>>
       ELSE \E records \in BatchBodies(config[dbName].Type,
                                        getAdapterAndTableConfig(config, dbName, tableAlias)) :
              WriteSent("BatchUpdate", dbName, tableAlias,
                        getAdapterAndTableConfig(config, dbName, tableAlias).Name, records,
                        NoQuery,
                        BatchUpdateResult(config, store, now, dbName, tableAlias, records))
  /\ UNCHANGED <<config, paging, sched, kv, boot, nextId, now, tableCounts, counter>>

\* fmt.Sprintf("%v", val) of a primary-key value of the input.
SprintV(v) == IF v.t \in {"str", "oid"} THEN v.s ELSE Itoa(v.n)

RECURSIVE JoinComma(_)
\* strings.Join(vals, ",")
JoinComma(vals) ==
  IF vals = <<>> THEN <<>>
  ELSE IF Len(vals) = 1 THEN vals[1]
  ELSE vals[1] \o <<",">> \o JoinComma(Tail(vals))

\* The query of the refetch: <pk>__in=v1,v2,... over the rows of the input
\* that carry the key, and no other parameter.
RefetchQuery(pk, input) ==
  LET Keyed(item) == pk \in DOMAIN item
  IN  Param(<<pk, "__in">>,
            JoinComma([i \in 1..Len(SelectSeq(input, Keyed)) |->
                         SprintV(SelectSeq(input, Keyed)[i][pk])]))

\* What the resolver returns from the answer of the PUT and the answer of
\* the GET it sends when the PUT succeeded: out["data"], or an error.
ResolvedFrom(put, list) ==
  IF put.status # 200 THEN [status |-> put.status, data |-> <<>>, R2 |-> put.R2]
  ELSE IF list.status # 200 THEN [status |-> list.status, data |-> <<>>, R2 |-> put.R2]
  ELSE [status |-> 200, data |-> list.data, R2 |-> put.R2]

\* restBatchUpdateResolver for the table's batch-update schema, whose
\* required list is the primary key: [status, data, R2].
BatchUpdateResolved(cfg, st, counts, clock, dbName, tableAlias, tc, input, order, put) ==
  ResolvedFrom(put,
               ListOn(cfg[dbName].Type, tc,
                      [st[dbName] EXCEPT ![tc.Name] = put.R2], counts,
                      CountKey(dbName, tableAlias), RefetchQuery(tc.PrimaryKey, input), order))

\* The input arrays of the mutation: one row for a record, or a row for
\* each of two records.
ResolverInputs(dbType, tc) ==
  { <<[f \in {tc.PrimaryKey, "v"} |-> IF f = "v" THEN FloatV(x) ELSE BodyId(dbType, 1)]>> :
      x \in 1..2 }
  \cup { <<[f \in {tc.PrimaryKey, "v"} |-> IF f = "v" THEN FloatV(2) ELSE BodyId(dbType, 1)],
           [f \in {tc.PrimaryKey, "v"} |-> IF f = "v" THEN FloatV(2) ELSE BodyId(dbType, MaxRows)]>> }

ResolverSent(dbName, tableAlias, tableName, input, q, r) ==
  /\ resp' = Response("batchUpdate", dbName, tableAlias, input, q, <<>>,
                      r.status, r.data, 0, 0)
  /\ Stored(dbName, tableName, r.R2)

\* The GraphQL mutation batchUpdate<Table>(input: [...]).
restBatchUpdateResolver ==
  /\ \E dbName \in DOMAIN config : \E i \in DOMAIN config[dbName].Tables :
     \E input \in ResolverInputs(config[dbName].Type, config[dbName].Tables[i]) :
     \E order \in VisitOrders(config[dbName].Type,
                               RefetchQuery(config[dbName].Tables[i].PrimaryKey, input)) :
       ResolverSent(dbName, config[dbName].Tables[i].Alias, config[dbName].Tables[i].Name,
                    input, RefetchQuery(config[dbName].Tables[i].PrimaryKey, input),
                    BatchUpdateResolved(config, store, tableCounts, now, dbName,
                                        config[dbName].Tables[i].Alias,
                                        config[dbName].Tables[i], input, order,
                                        BatchUpdateResult(config, store, now, dbName,
                                                          config[dbName].Tables[i].Alias,
                                                          input)))
  /\ UNCHANGED <<config, paging, sched, kv, boot, nextId, now, tableCounts, counter>>

\* Time passes.
Tick ==
  /\ now < MaxClock
  /\ now' = now + 1
  /\ UNCHANGED <<config, paging, sched, kv, boot, store, nextId, tableCounts, counter, dirty, resp>>

\* ------------------------------------------------------------------------
\* The store specification: one database with one table, the refresher
\* switched off (total_cnt_interval = 0: startTableCounter returns at once
\* and the cache stays empty).
\* ------------------------------------------------------------------------
\* The startup is over and the gateway serves.
Started == [pc |-> "serving"]

\* The callers of the scheduler.
Callers == {1, 2}

\* The job ids the callers use.
JobIds == {"job1", "job2"}

NoCall == [op |-> "", id |-> "", entry |-> 0]

NoReturn == [op |-> "", id |-> "", err |-> "", has |-> FALSE]

\* NewScheduler(): a cron that is not running and has no entry, no job, the
\* mutex free.  entries: the entries of the cron, each with its EntryID, the
\* job function (named by the id it was added under), its schedule and
\* whether it is due; fired: the entries the cron started in its last step;
\* lastOk: for each id the last operation that returned nil; removed: the
\* entries whose RemoveJob has returned.
NewScheduler ==
  [running |-> FALSE, entries |-> {}, nextID |-> 0, jobs |-> [i \in {} |-> 0],
   mu |-> 0, call |-> [p \in Callers |-> NoCall], ret |-> [p \in Callers |-> NoReturn],
   fired |-> {}, lastOk |-> [i \in JobIds |-> ""], removed |-> {}]

NoKVReturn == [op |-> "", key |-> "", value |-> "", err |-> "", ok |-> FALSE]

\* utils.Open(path) on an empty directory: no entry.  data: the entries of
\* the database, each with its value and ExpiresAt; time: the clock, in
\* ticks; hist: for each key the last Set or Delete that returned nil.
Open ==
  [data |-> [k \in {} |-> 0], time |-> 0, hist |-> [k \in {} |-> 0], ret |-> NoKVReturn]

NoResponse == Response("", <<>>, <<>>, <<>>, NoQuery, <<>>, 0, <<>>, 0, 0)

NoCounts == [k \in {} |-> 0]

TableNames(cfg, dbName) == {cfg[dbName].Tables[i].Name : i \in DOMAIN cfg[dbName].Tables}

EmptyStore(cfg) == [d \in DOMAIN cfg |-> [t \in TableNames(cfg, d) |-> {}]]

NoneInserted(cfg) == [d \in DOMAIN cfg |-> [t \in TableNames(cfg, d) |-> 0]]

CounterOff == [pc |-> "off", todo |-> <<>>, count |-> 0]

Init ==
  /\ config \in SingleTableConfigs
  /\ store = EmptyStore(config)
  /\ nextId = NoneInserted(config)
  /\ now = 1
  /\ tableCounts = NoCounts
  /\ counter = CounterOff
  /\ dirty = FALSE
  /\ resp = NoResponse
  /\ paging = ViperDefaults
  /\ sched = NewScheduler
  /\ kv = Open
  /\ boot = Started

StoreList == handleList("store")

StoreCreate == handleBatchCreate(BodyRecords)

Next ==
  \/ StoreList
  \/ handleGetOne
  \/ StoreCreate
  \/ handleUpdateOne
  \/ handleDeleteOne
  \/ handleBatchDelete
  \/ Tick

Spec == Init /\ [][Next]_vars

\* ------------------------------------------------------------------------
\* Vocabulary of the properties
\* ------------------------------------------------------------------------
\* The table the last response was about.
RespTable == getAdapterAndTableConfig(config, resp.db, resp.tbl)

RespType == config[resp.db].Type

\* The values a delete writes into the soft-delete field.
IsMarker(v) == v \in {BoolV(TRUE), IntV(1)} \cup {TimeV(c) : c \in 1..MaxClock}

\* A record that has been soft-deleted: its marker is set.
Marked(tc, r) ==
  /\ tc.SoftDeleteKey # ""
  /\ tc.SoftDeleteKey \in DOMAIN r
  /\ IsMarker(r[tc.SoftDeleteKey])

\* A primary-key value as the text of a path segment.
IdText(v) == IF v.t \in {"oid", "str"} THEN v.s ELSE Itoa(v.n)

\* The records of a response or of a table that carry the id.
WithId(rows, pk, id) == {r \in rows : IdText(r[pk]) = id}

Elements(seq) == {seq[i] : i \in DOMAIN seq}

\* The served tables of the configuration, as <<database alias, table>>.
ServedTables ==
  UNION {{<<d, config[d].Tables[i]>> : i \in DOMAIN config[d].Tables} : d \in DOMAIN config}

\* ------------------------------------------------------------------------
\* C1
\* ------------------------------------------------------------------------
\* C1: on a table with a soft-delete key, once DELETE of a record has been
\* answered 200, a GET of its primary key answers 404 and no list response
\* (whatever its query, a filter on the primary key included) holds it.
C1_DeletedRecordHidden ==
  (resp.op = "DeleteOne" /\ resp.status = 200 /\ RespTable.SoftDeleteKey # "") =>
    /\ GetOneResult(config, store, resp.db, resp.tbl, resp.id).status = 404
    /\ \A q \in StoreQueries(RespType, RespTable) : \A order \in VisitOrders(RespType, q) :
         WithId(Elements(ListResult(config, store, tableCounts, resp.db, resp.tbl,
                                    q, order).data),
                RespTable.PrimaryKey, resp.id) = {}

\* ------------------------------------------------------------------------
\* C2
\* ------------------------------------------------------------------------
\* C2: on a table with a soft-delete key every read shows only records whose
\* marker is unset: a list or single-record response holds no soft-deleted
\* record, whatever the query, and CountAll counts none.
C2_ReadsShowOnlyLive ==
  /\ (resp.op \in {"List", "GetOne"} /\ resp.status = 200) =>
       \A r \in Elements(resp.data) : ~Marked(RespTable, r)
  /\ \A t \in ServedTables :
       CountAllOn(config[t[1]].Type, t[2], store[t[1]][t[2].Name])
         = CountAllOn(config[t[1]].Type, t[2],
                      {r \in store[t[1]][t[2].Name] : ~Marked(t[2], r)})

\* ------------------------------------------------------------------------
\* C3
\* ------------------------------------------------------------------------
\* A default as it is read back: the zero date a date column made of the
\* number 0 counts as that default.
CarriesDefault(v, d) == ValEq(v, d) \/ SqlEq(v, d) \/ (v = TimeV(0) /\ d = IntV(0))

\* The record read back holds the fields the client supplied and the
\* default of every field it did not supply.
ReadsBack(tc, rec, g) ==
  /\ g.status = 200
  /\ \A f \in DOMAIN rec : f \in DOMAIN g.data[1] /\ SqlEq(g.data[1][f], rec[f])
  /\ \A f \in DOMAIN tc.DefaultValues \ DOMAIN rec :
       f \in DOMAIN g.data[1] /\ CarriesDefault(g.data[1][f], tc.DefaultValues[f])

\* The GET of the primary key a successful POST returned.
CreatedThenRead(dbName, tc, rec, c) ==
  c.status = 201 =>
    ReadsBack(tc, rec,
              GetOneAt(config[dbName].Type, tc, [store[dbName] EXCEPT ![tc.Name] = c.R2],
                       <<>>, IdText(c.data[1][tc.PrimaryKey])))

\* C3: after a POST of a record has been answered 201, a GET of the primary
\* key it returned answers 200 with a record that holds the supplied fields
\* and the default value of every absent field, on tables with a soft-delete
\* key too.
C3_CreatedRecordReadable ==
  \A t \in ServedTables : \A rec \in BodyRecords :
    \A zero \in ZeroDateOutcomes(config[t[1]].Type) :
      nextId[t[1]][t[2].Name] < MaxRows =>
        CreatedThenRead(t[1], t[2], rec,
                        BatchCreateResult(config, store, nextId[t[1]][t[2].Name],
                                          t[1], t[2].Alias, <<rec>>, zero))

\* ------------------------------------------------------------------------
\* C4
\* ------------------------------------------------------------------------
\* A delete that was answered 200, reported nothing deleted and left the
\* table as it was.
NoOp(d, R) == d.status = 200 /\ d.count = 0 /\ d.R2 = R

\* C4: a DeleteOne or BatchDelete of a record that is already soft-deleted
\* is a no-op: no error, a reported count of 0, and the marker (with the
\* rest of the table) as the first delete left it.
C4_DeleteAgainIsNoOp ==
  \A t \in ServedTables : \A r \in store[t[1]][t[2].Name] :
    Marked(t[2], r) =>
      /\ NoOp(DeleteOneResult(config, store, now, t[1], t[2].Alias,
                              IdText(r[t[2].PrimaryKey])),
              store[t[1]][t[2].Name])
      /\ NoOp(BatchDeleteResult(config, store, now, t[1], t[2].Alias,
                                <<BodyId(config[t[1]].Type, Ord(r, t[2].PrimaryKey))>>),
              store[t[1]][t[2].Name])

\* ------------------------------------------------------------------------
\* C5
\* ------------------------------------------------------------------------
\* The marker the soft-delete type asks for; any value for another type.
IsMarkerOf(tc, clock, v) ==
  CASE tc.SoftDeleteType = "timestamp" -> v = TimeV(clock)
    [] tc.SoftDeleteType = "boolean" -> v = BoolV(TRUE)
    [] tc.SoftDeleteType = "int" -> v = IntV(1)
    [] OTHER -> TRUE

\* r2 is r with its marker set and nothing else touched.
MarkedCopy(tc, clock, r, r2) ==
  /\ DOMAIN r2 = DOMAIN r \cup {tc.SoftDeleteKey}
  /\ IsMarkerOf(tc, clock, r2[tc.SoftDeleteKey])
  /\ \A f \in DOMAIN r \ {tc.SoftDeleteKey} : r2[f] = r[f]

\* What a delete of the targeted records may do to a table: with a
\* soft-delete key it keeps every record, leaving the others as they are
\* and setting the marker of the targeted ones; without it removes exactly
\* the targeted ones.
DeleteFrame(tc, clock, R, R2, targets) ==
  IF tc.SoftDeleteKey # ""
  THEN /\ Cardinality(R2) = Cardinality(R)
       /\ \A r \in R \ targets : r \in R2
       /\ \A r \in targets : \E r2 \in R2 :
            r2[tc.PrimaryKey] = r[tc.PrimaryKey] /\ MarkedCopy(tc, clock, r, r2)
  ELSE R2 = R \ targets

\* The records a batch delete of the ids targets.
Targets(dbType, tc, R, ids) ==
  {r \in R : \E i \in DOMAIN ids : ids[i] = BodyId(dbType, Ord(r, tc.PrimaryKey))}

DeletedInFrame(tc, clock, R, d, targets) ==
  d.status = 200 => DeleteFrame(tc, clock, R, d.R2, targets)

\* C5: with a soft-delete key DeleteOne and BatchDelete remove nothing: they
\* set the marker (timestamp: now, boolean: true, int: 1) of the targeted
\* records and leave every other field, every other record and the number
\* of records as they were; without a soft-delete key they remove the
\* targeted records.
C5_DeleteSetsMarkerOnly ==
  \A t \in ServedTables :
    /\ \A id \in PathIds(config[t[1]].Type) :
         DeletedInFrame(t[2], now, store[t[1]][t[2].Name],
                        DeleteOneResult(config, store, now, t[1], t[2].Alias, id),
                        WithId(store[t[1]][t[2].Name], t[2].PrimaryKey, id))
    /\ \A ids \in BodyIds(config[t[1]].Type) :
         DeletedInFrame(t[2], now, store[t[1]][t[2].Name],
                        BatchDeleteResult(config, store, now, t[1], t[2].Alias, ids),
                        Targets(config[t[1]].Type, t[2], store[t[1]][t[2].Name], ids))

\* A DeleteOne was answered 200 on a table with a soft-delete key and the
\* record is stored with the marker of the table's type, beside another
\* record that is not marked.
C5_Witness ==
  /\ resp.op = "DeleteOne" /\ resp.status = 200 /\ resp.count = 1
  /\ RespTable.SoftDeleteKey # ""
  /\ \E r \in WithId(store[resp.db][RespTable.Name], RespTable.PrimaryKey, resp.id) :
       Marked(RespTable, r) /\ IsMarkerOf(RespTable, now, r[RespTable.SoftDeleteKey])
  /\ Cardinality(store[resp.db][RespTable.Name]) = 2

\* ------------------------------------------------------------------------
\* C6
\* ------------------------------------------------------------------------
\* C6: a GetOne, UpdateOne or DeleteOne whose lookup matches no visible
\* record is answered 404, on every backend (never 200 with a
\* matched_count of 0).
C6_NotFoundIs404 ==
  \A t \in ServedTables : \A id \in PathIds(config[t[1]].Type) :
    (\A r \in WithId(store[t[1]][t[2].Name], t[2].PrimaryKey, id) : Marked(t[2], r)) =>
      /\ GetOneResult(config, store, t[1], t[2].Alias, id).status = 404
      /\ \A body \in BodyRecords :
           UpdateOneResult(config, store, t[1], t[2].Alias, id, body).status = 404
      /\ DeleteOneResult(config, store, now, t[1], t[2].Alias, id).status = 404

\* ------------------------------------------------------------------------
\* The filter specification: the tables of the store specification, filled
\* by POST and read by list requests that filter on the data field v.
\* ------------------------------------------------------------------------
FilterList == handleList("filter")

FilterNext ==
  \/ FilterList
  \/ StoreCreate

FilterSpec == Init /\ [][FilterNext]_vars

\* What a list request with the query would be answered now.
ListOf(t, q, order) ==
  ListResult(config, store, tableCounts, t[1], t[2].Alias, q, order)

SameList(l1, l2) == l1.status = l2.status /\ l1.data = l2.data /\ l1.total = l2.total

\* ------------------------------------------------------------------------
\* C7
\* ------------------------------------------------------------------------
\* C7: on every backend a list request with both v__gte=x and v__lte=x is
\* answered with the same records and the same total as one with v=x.
C7_RangeIsEquality ==
  \A t \in ServedTables : \A x \in FilterTexts :
    \A order \in VisitOrders(config[t[1]].Type, RangeQuery(x)) :
      SameList(ListOf(t, RangeQuery(x), order), ListOf(t, Param(FieldV, x), <<FieldV>>))

\* ------------------------------------------------------------------------
\* C8
\* ------------------------------------------------------------------------
\* l holds exactly the records of la and lb.
UnionOf(l, la, lb) ==
  /\ l.status = 200 /\ la.status = 200 /\ lb.status = 200
  /\ Elements(l.data) = Elements(la.data) \cup Elements(lb.data)

\* C8: on every backend a list request with v__in=a,b is answered with
\* exactly the records of v=a and of v=b together: each element of the
\* list is parsed as a single equality value is.
C8_InIsUnion ==
  \A t \in ServedTables : \A a \in FilterTexts : \A b \in FilterTexts :
    UnionOf(ListOf(t, InQuery(a, b), <<<<"v", "__in">>>>),
            ListOf(t, Param(FieldV, a), <<FieldV>>),
            ListOf(t, Param(FieldV, b), <<FieldV>>))

\* ------------------------------------------------------------------------
\* The count refresher (startTableCounter with total_cnt_interval > 0).
\* counter.pc is "start" before the first pass, "count" before CountAll of
\* the table at the head of counter.todo, "store" before the write of
\* counter.count to the cache, "idle" between passes and "off" when the
\* refresher was never started.
\* ------------------------------------------------------------------------
RECURSIVE TablesIn(_, _)
\* The tables of the databases, database by database, as
\* <<database alias, table>>.
TablesIn(cfg, dbs) ==
  IF dbs = <<>> THEN <<>>
  ELSE [i \in DOMAIN cfg[Head(dbs)].Tables |-> <<Head(dbs), cfg[Head(dbs)].Tables[i]>>]
         \o TablesIn(cfg, Tail(dbs))

\* updateAllTableCounts begins a pass, at start and at every tick of the
\* ticker: it ranges over the map of adapters, in any order, and over the
\* tables of each database in the order of the configuration.
CounterBegin ==
  /\ counter.pc \in {"start", "idle"}
  /\ \E dbs \in KeyOrders(DOMAIN config) :
       counter' = [pc |-> "count", todo |-> TablesIn(config, dbs), count |-> 0]
  /\ dirty' = FALSE
  /\ UNCHANGED <<config, paging, sched, kv, boot, store, nextId, now, tableCounts, resp>>

\* adapter.CountAll of the next table.
CountTable ==
  /\ counter.pc = "count"
  /\ counter' = [counter EXCEPT
       !.pc = "store",
       !.count = CountAllOn(config[Head(counter.todo)[1]].Type, Head(counter.todo)[2],
                            store[Head(counter.todo)[1]][Head(counter.todo)[2].Name])]
  /\ UNCHANGED <<config, paging, sched, kv, boot, store, nextId, now, tableCounts, dirty, resp>>

\* dm.tableCounts[key] = count, and on to the next table.
CacheStore ==
  /\ counter.pc = "store"
  /\ tableCounts' = MapSet(tableCounts,
                           CountKey(Head(counter.todo)[1], Head(counter.todo)[2].Alias),
                           counter.count)
  /\ counter' = [pc |-> IF Tail(counter.todo) = <<>> THEN "idle" ELSE "count",
                 todo |-> Tail(counter.todo), count |-> 0]
  /\ UNCHANGED <<config, paging, sched, kv, boot, store, nextId, now, dirty, resp>>

\* ------------------------------------------------------------------------
\* The count specification: the refresher running beside list, create and
\* delete requests.
\* ------------------------------------------------------------------------
NameAB == <<"a", "_", "b">>
NameBC == <<"b", "_", "c">>
NameC == <<"c">>

\* Database "a" serving table "b_c" and database "a_b" serving table "c".
TwoDatabases ==
  [d \in {NameA, NameAB} |->
     IF d = NameA THEN SqlDatabase("sqlite", NameBC, PlainColumns)
     ELSE SqlDatabase("sqlite", NameC, PlainColumns)]

IsDeletedColumns == PlainColumns \cup {[Name |-> "is_deleted", Type |-> TypeTinyint]}

CountConfigs ==
  { TwoDatabases,
    [d \in {NameA} |-> SqlDatabase("sqlite", NameT, IsDeletedColumns)],
    [d \in {NameA} |->
       MongoDatabase(MongoTableConfig(NameT, "is_deleted", softDeleteTypeInt, IntV(0)))] }

CountInit ==
  /\ config \in CountConfigs
  /\ store = EmptyStore(config)
  /\ nextId = NoneInserted(config)
  /\ now = 1
  /\ tableCounts = NoCounts
  /\ counter = [pc |-> "start", todo |-> <<>>, count |-> 0]
  /\ dirty = FALSE
  /\ resp = NoResponse
  /\ paging = ViperDefaults
  /\ sched = NewScheduler
  /\ kv = Open
  /\ boot = Started

CountList == handleList("count")

CountCreate == handleBatchCreate({[k \in {"v"} |-> FloatV(1)]})

CountNext ==
  \/ CountList
  \/ CountCreate
  \/ handleDeleteOne
  \/ CounterBegin
  \/ CountTable
  \/ CacheStore

CountSpec == CountInit /\ [][CountNext]_vars

\* ------------------------------------------------------------------------
\* C9
\* ------------------------------------------------------------------------
\* The record satisfies every filter parameter of the query.
MatchesEach(dbType, r, q) ==
  IF IsMongo(dbType)
  THEN \A key \in FilterKeys(q) :
         MongoCondOf(key, q[key]).set =>
           MongoFieldHolds(r, key[1], MongoCondOf(key, q[key]).c)
  ELSE SqlMatches(r, UNION {GormWhereOf(key, q[key]) : key \in FilterKeys(q)})

\* The records of a table that are not soft-deleted.
Live(tc, R) == {r \in R : ~Marked(tc, r)}

\* The total of a list response: of an unfiltered request the cached value
\* (when the cache holds one), of a filtered request the number of live
\* records that satisfy the filters.
TotalOf(dbType, tc, R, key, q, l) ==
  l.status = 200 =>
    IF FilterKeys(q) = {}
    THEN key \in DOMAIN tableCounts => l.total = tableCounts[key]
    ELSE l.total = Cardinality({r \in Live(tc, R) : MatchesEach(dbType, r, q)})

\* C9: the total of a list response is the cached value of the table when
\* the request carries no filter parameter, and the count of the
\* non-deleted records matching the filters, whatever page and page_size,
\* when it carries one.
C9_TotalOfList ==
  \A t \in ServedTables : \A q \in CountQueries(config[t[1]].Type, t[2]) :
    \A order \in VisitOrders(config[t[1]].Type, q) :
      TotalOf(config[t[1]].Type, t[2], store[t[1]][t[2].Name],
              CountKey(t[1], t[2].Alias), q, ListOf(t, q, order))

\* ------------------------------------------------------------------------
\* C10
\* ------------------------------------------------------------------------
\* C10: once a refresh pass has completed and no write was served since it
\* began, the total of an unfiltered list response equals the true count of
\* the non-deleted records of the table, for every served table.
C10_TotalIsTrueCount ==
  (counter.pc = "idle" /\ ~dirty) =>
    \A t \in ServedTables :
      ListOf(t, NoQuery, <<>>).total = Cardinality(Live(t[2], store[t[1]][t[2].Name]))

\* ------------------------------------------------------------------------
\* The key specification: one table with unique keys (v, w) and (w) and the
\* auto-update field updated_at, served from each kind of backend.
\* ------------------------------------------------------------------------
TypeVarchar == <<"v", "a", "r", "c", "h", "a", "r">>

KeyColumns ==
  PlainColumns \cup {[Name |-> "w", Type |-> TypeVarchar],
                     [Name |-> "updated_at", Type |-> TypeDatetime]}

\* The table configuration read from t.enable.yaml.
KeyTableConfig(pk) ==
  [Name |-> NameT, Alias |-> NameT, PrimaryKey |-> pk,
   SoftDeleteKey |-> "", SoftDeleteType |-> "", DefaultValues |-> EmptyMap,
   UniqueKeys |-> <<<<"v", "w">>, <<"w">>>>, AutoUpdateFields |-> <<"updated_at">>]

KeyConfigs ==
  {[d \in {NameA} |-> [Type |-> ty, Tables |-> <<KeyTableConfig("id")>>,
                       Columns |-> [x \in {NameT} |-> KeyColumns]]] :
      ty \in {"mysql", "sqlite"}}
  \cup {[d \in {NameA} |-> MongoDatabase(KeyTableConfig("_id"))]}

KeyInit ==
  /\ config \in KeyConfigs
  /\ store = EmptyStore(config)
  /\ nextId = NoneInserted(config)
  /\ now = 1
  /\ tableCounts = NoCounts
  /\ counter = CounterOff
  /\ dirty = FALSE
  /\ resp = NoResponse
  /\ paging = ViperDefaults
  /\ sched = NewScheduler
  /\ kv = Open
  /\ boot = Started

KeyCreate == handleBatchCreate(KeyRecords)

KeyNext ==
  \/ KeyCreate
  \/ handleGetOne
  \/ handleUpdateOne
  \/ handleDeleteOne
  \/ handleBatchUpdate

KeySpec == KeyInit /\ [][KeyNext]_vars

\* ------------------------------------------------------------------------
\* C11
\* ------------------------------------------------------------------------
\* The texts of a group of unique_keys.
GroupTexts(group) == [i \in DOMAIN group |-> NameText(group[i])]

\* The request names a configured group, in its order, and its :id holds as
\* many comma-separated values as the group has fields.
KeyedRight(tc, l) ==
  /\ \E g \in DOMAIN tc.UniqueKeys : GroupTexts(tc.UniqueKeys[g]) = parseKeyFields(l.key)
  /\ Len(Split(l.id, ",")) = Len(parseKeyFields(l.key))

\* The lookup map pairs field i with value i.
PairedByPosition(tc, l, filter) ==
  /\ DOMAIN filter = {FieldNamed(parseKeyFields(l.key)[i]) : i \in DOMAIN parseKeyFields(l.key)}
  /\ \A i \in DOMAIN parseKeyFields(l.key) :
       filter[FieldNamed(parseKeyFields(l.key)[i])] = StrV(Split(l.id, ",")[i])

\* The record a keyed GET returned carries the values of the request under
\* the equality of its backend.
FoundByKey(dbType, rec, l) ==
  \A i \in DOMAIN parseKeyFields(l.key) :
    IF IsMongo(dbType)
    THEN MongoFieldEq(rec, FieldNamed(parseKeyFields(l.key)[i]), StrV(Split(l.id, ",")[i]))
    ELSE SqlEq(rec[FieldNamed(parseKeyFields(l.key)[i])], StrV(Split(l.id, ",")[i]))

KeyedAnswers(dbName, tc, l, g, d) ==
  IF KeyedRight(tc, l)
  THEN /\ Lookup(tc, l.key, l.id).status = 0
       /\ PairedByPosition(tc, l, Lookup(tc, l.key, l.id).filter)
       /\ g.status \in {200, 404}
       /\ g.status = 200 => FoundByKey(config[dbName].Type, g.data[1], l)
       /\ d.status \in {200, 404}
  ELSE /\ g.status = 400
       /\ d.status = 400 /\ d.R2 = store[dbName][tc.Name]
       /\ \A body \in UpdateBodies(tc) :
            /\ UpdateOneKeyResult(config, store, now, dbName, tc.Alias, l.key, l.id, body).status
                 = 400
            /\ UpdateOneKeyResult(config, store, now, dbName, tc.Alias, l.key, l.id, body).R2
                 = store[dbName][tc.Name]

\* C11: a GET, PUT or DELETE on /:db/:tbl/:id with ?key=f1,...,fn is answered
\* 400 unless the field list equals, in length and order, a group of the
\* table's unique_keys and the comma-split :id has n values; a valid request
\* looks the record up with field i paired with value i.
C11_CompositeKeyLookup ==
  \A t \in ServedTables : \A l \in Lookups(config[t[1]].Type, t[2]) :
    parseKeyFields(l.key) # <<>> =>
      KeyedAnswers(t[1], t[2], l,
                   GetOneKeyResult(config, store, t[1], t[2].Alias, l.key, l.id),
                   DeleteOneKeyResult(config, store, now, t[1], t[2].Alias, l.key, l.id))

\* A GET by the two-field key found its record.
C11_Witness ==
  /\ resp.op = "GetOne" /\ resp.status = 200
  /\ queryParamKey \in DOMAIN resp.q
  /\ Len(parseKeyFields(resp.q[queryParamKey])) = 2
  /\ KeyedRight(RespTable, [key |-> resp.q[queryParamKey], id |-> resp.id])

\* ------------------------------------------------------------------------
\* C12
\* ------------------------------------------------------------------------
\* Some row of the body carries no primary key.
LacksPk(tc, records) == \E i \in DOMAIN records : tc.PrimaryKey \notin DOMAIN records[i]

\* C12: a batch update (PUT /:db/:tbl) whose body holds a row without the
\* table's primary key is answered 400.
C12_BatchUpdateNeedsPk ==
  \A t \in ServedTables : \A records \in BatchBodies(config[t[1]].Type, t[2]) :
    LacksPk(t[2], records) =>
      BatchUpdateResult(config, store, now, t[1], t[2].Alias, records).status = 400

\* A batch update of two rows, the first naming a stored record and the
\* second without primary key, was answered 400.
C12_Witness ==
  /\ resp.op = "BatchUpdate" /\ resp.status = 400
  /\ Len(resp.id) = 2
  /\ RespTable.PrimaryKey \in DOMAIN resp.id[1]
  /\ RespTable.PrimaryKey \notin DOMAIN resp.id[2]
  /\ store[resp.db][RespTable.Name] # {}

\* ------------------------------------------------------------------------
\* C13
\* ------------------------------------------------------------------------
\* The error adapter.BatchUpdate returns to handleBatchUpdate.
BatchUpdateErr(db, tc, R, clock, records) ==
  IF IsMongo(db.Type)
  THEN MongoBatchUpdate(tc, R, [i \in 1..Len(records) |->
                                  applyAutoUpdateFields(records[i], tc, clock)]).err
  ELSE GormBatchUpdate(db.Type, tc, R, db.Columns[tc.Name],
                       [i \in 1..Len(records) |->
                          applyAutoUpdateFields(records[i], tc, clock)]).err

\* C13: a failure raised by the adapter or the backend is answered 500; 400
\* is kept for errors in the shape of the request.  Here: a batch update
\* whose rows all carry the primary key and whose UPDATE the backend fails.
C13_BackendFailureIs500 ==
  \A t \in ServedTables : \A records \in BatchBodies(config[t[1]].Type, t[2]) :
    (records # <<>> /\ ~LacksPk(t[2], records)
       /\ BatchUpdateErr(config[t[1]], t[2], store[t[1]][t[2].Name], now, records) = "backend")
    => BatchUpdateResult(config, store, now, t[1], t[2].Alias, records).status = 500

\* ------------------------------------------------------------------------
\* C15
\* ------------------------------------------------------------------------
AutoUpdateSet(tc) == {GetAutoUpdateFields(tc)[i] : i \in DOMAIN GetAutoUpdateFields(tc)}

\* Every auto-update field of the data is the current time.
Stamped(tc, data) ==
  \A f \in AutoUpdateSet(tc) : f \in DOMAIN data /\ data[f] = TimeV(now)

\* The records an update wrote carry the current time.
StampedRows(tc, R, R2) ==
  \A new \in R2 \ R : Stamped(tc, new)

\* Each record an update wrote replaces one with the same primary key and
\* the same values in the fields of the lookup filter.
KeysKept(tc, filter, R, R2) ==
  \A new \in R2 \ R : \E old \in R \ R2 :
    /\ old[tc.PrimaryKey] = new[tc.PrimaryKey]
    /\ \A k \in DOMAIN filter : k \in DOMAIN old /\ k \in DOMAIN new /\ old[k] = new[k]

SingleUpdateStamps(dbName, tc, l, look, body) ==
  look.status = 0 =>
    /\ Stamped(tc, UpdateDataOf(tc, now, look.filter, body))
    /\ DOMAIN UpdateDataOf(tc, now, look.filter, body) \cap DOMAIN look.filter = {}
    /\ StampedRows(tc, store[dbName][tc.Name],
                   UpdateOneKeyResult(config, store, now, dbName, tc.Alias,
                                      l.key, l.id, body).R2)
    /\ KeysKept(tc, look.filter, store[dbName][tc.Name],
                UpdateOneKeyResult(config, store, now, dbName, tc.Alias,
                                   l.key, l.id, body).R2)

DefaultsColumns ==
  PlainColumns \cup {[Name |-> "w", Type |-> TypeVarchar],
                     [Name |-> "created_at", Type |-> TypeDatetime]}

\* The table configuration read from t.enable.yaml.
DefaultsTableConfig(pk, template) ==
  [Name |-> NameT, Alias |-> NameT, PrimaryKey |-> pk,
   SoftDeleteKey |-> "", SoftDeleteType |-> "",
   DefaultValues |-> [v |-> IntV(1), w |-> template, created_at |-> defaultValueNow],
   UniqueKeys |-> <<>>, AutoUpdateFields |-> <<>>]

DefaultsConfigs ==
  {[d \in {NameA} |-> [Type |-> ty, Tables |-> <<DefaultsTableConfig("id", tpl)>>,
                       Columns |-> [x \in {NameT} |-> DefaultsColumns]]] :
      ty \in {"mysql", "sqlite"}, tpl \in IdTemplates}
  \cup {[d \in {NameA} |-> MongoDatabase(DefaultsTableConfig("_id", tpl))] : tpl \in IdTemplates}

\* The JSON objects sent to the table: a value for the literal default, a
\* null and an empty string, a text of the client's with a null.
DefaultsRecords ==
  { [v |-> FloatV(2)], [v |-> NullV, w |-> StrV(<<>>)],
    [w |-> StrV(<<"1">>), created_at |-> NullV] }

DefaultsInit ==
  /\ config \in DefaultsConfigs
  /\ store = EmptyStore(config)
  /\ nextId = NoneInserted(config)
  /\ now = 1
  /\ tableCounts = NoCounts
  /\ counter = CounterOff
  /\ dirty = FALSE
  /\ resp = NoResponse
  /\ paging = ViperDefaults
  /\ sched = NewScheduler
  /\ kv = Open
  /\ boot = Started

DefaultsCreate == handleBatchCreate(DefaultsRecords)

DefaultsNext ==
  \/ DefaultsCreate
  \/ handleGetOne
  \/ Tick

DefaultsSpec == DefaultsInit /\ [][DefaultsNext]_vars

\* ------------------------------------------------------------------------
\* C14
\* ------------------------------------------------------------------------
\* The field is one the record does not give a value: absent, null or "".
Unset(record, f) == f \notin DOMAIN record \/ record[f] \in {NullV, StrV(<<>>)}

\* The value is what the default stands for: the literal itself, the time
\* of the call for {{now}}, a text other than the template for an
\* identifier template.
Materializes(value, defaultValue, clock) ==
  IF defaultValue = defaultValueNow THEN value = TimeV(clock)
  ELSE IF defaultValue \in IdTemplates
  THEN value.t = "str" /\ value.s # <<>> /\ value \notin IdTemplates
  ELSE value = defaultValue

FillsOnlyUnset(tc, record, once, clock) ==
  /\ DOMAIN once = DOMAIN record \cup DOMAIN tc.DefaultValues
  /\ \A f \in DOMAIN once :
       IF f \in DOMAIN tc.DefaultValues /\ Unset(record, f)
       THEN Materializes(once[f], tc.DefaultValues[f], clock)
       ELSE once[f] = record[f]

\* C14: applyDefaultValues fills the fields of default_values the row lacks
\* or holds as null or "", with the literal or the template evaluated at
\* the call, and leaves every other field as it was; applied a second time,
\* at any later time and generator state, it returns the map of the first
\* application.
C14_DefaultsIdempotent ==
  \A t \in ServedTables : \A record \in DefaultsRecords \cup BodyRecords :
    \A c1 \in 1..MaxClock : \A c2 \in c1..MaxClock : \A k1 \in 1..MaxRows : \A k2 \in 1..MaxRows :
      /\ FillsOnlyUnset(t[2], record, applyDefaultValues(record, t[2], c1, k1), c1)
      /\ applyDefaultValues(applyDefaultValues(record, t[2], c1, k1), t[2], c2, k2)
           = applyDefaultValues(record, t[2], c1, k1)

\* A record was created with its three defaults filled, and a later time
\* has come at which a second application would evaluate {{now}} anew.
C14_Witness ==
  /\ resp.op = "BatchCreate" /\ resp.status = 201
  /\ \E r \in store[resp.db][RespTable.Name] :
       /\ r.w.t = "str" /\ r.w.s # <<>> /\ r.w.s[1] = "#"
       /\ r.created_at.t = "time" /\ r.created_at.n < now

\* ------------------------------------------------------------------------
\* C16
\* ------------------------------------------------------------------------
\* No object of the response carries its primary key as a number.
PkAsText(data, pk) == \A i \in DOMAIN data : pk \in DOMAIN data[i] => ~IsNumeric(data[i][pk])

\* C16: in every object of a list, get-one or batch-create response the
\* primary key is a decimal string when the stored value is numeric,
\* whatever numeric representation the backend delivers.
C16_PkIsDecimalString ==
  \A t \in ServedTables :
    /\ PkAsText(ListResult(config, store, tableCounts, t[1], t[2].Alias, NoQuery, <<>>).data,
                t[2].PrimaryKey)
    /\ \A id \in PathIds(config[t[1]].Type) :
         PkAsText(GetOneResult(config, store, t[1], t[2].Alias, id).data, t[2].PrimaryKey)
    /\ (resp.op \in {"List", "GetOne", "BatchCreate"} /\ HasTable(config, resp.db, resp.tbl))
         => PkAsText(resp.data, RespTable.PrimaryKey)

\* ------------------------------------------------------------------------
\* The paging specification: one table without soft delete, under the
\* default paging configuration and under _base.yaml files that set
\* default_page, default_page_size and max_page_size.
\* ------------------------------------------------------------------------
PagingConfigs ==
  {[d \in {NameA} |-> SqlDatabase(ty, NameT, PlainColumns)] : ty \in {"mysql", "sqlite"}}
  \cup {[d \in {NameA} |-> MongoDatabase(MongoTableMeta(NameT, {"_id", "v"}))]}

PagingValues ==
  { ViperDefaults,
    [DefaultPage |-> 1, DefaultPageSize |-> 1, MaxPageSize |-> 2],
    [DefaultPage |-> 0, DefaultPageSize |-> 2, MaxPageSize |-> 2] }

PagingInit ==
  /\ config \in PagingConfigs
  /\ store = EmptyStore(config)
  /\ nextId = NoneInserted(config)
  /\ now = 1
  /\ tableCounts = NoCounts
  /\ counter = CounterOff
  /\ dirty = FALSE
  /\ resp = NoResponse
  /\ paging \in PagingValues
  /\ sched = NewScheduler
  /\ kv = Open
  /\ boot = Started

PagingCreate == handleBatchCreate(BodyRecords)

PagingList == handleList("paging")

PagingNext ==
  \/ PagingCreate
  \/ PagingList
  \/ restBatchUpdateResolver

PagingSpec == PagingInit /\ [][PagingNext]_vars

\* ------------------------------------------------------------------------
\* C17
\* ------------------------------------------------------------------------
\* The records from position first on, at most size of them.
RecordsFrom(rows, first, size) ==
  [i \in 1..(IF Len(rows) - first + 1 < size
             THEN (IF Len(rows) < first THEN 0 ELSE Len(rows) - first + 1)
             ELSE size) |-> rows[first + i - 1]]

\* The list answers with the records after the first (page - 1) * pageSize
\* in the order of the backend.
SkipsExactly(tc, R, l, page, pageSize) ==
  /\ l.status = 200
  /\ l.data = fixPkFieldsToString(RecordsFrom(InOrder(R, tc.PrimaryKey),
                                              (page - 1) * pageSize + 1, pageSize),
                                  tc.PrimaryKey)

\* C17: for every list request and every loaded configuration the adapter is
\* called with page >= 1 and 1 <= page_size <= max_page_size and skips
\* (page - 1) * page_size records.
C17_PageWithinBounds ==
  \A t \in ServedTables : \A q \in PagingQueries :
    /\ PageOfQuery(q) >= 1
    /\ PageSizeOfQuery(q) >= 1 /\ PageSizeOfQuery(q) <= paging.MaxPageSize
    /\ SkipsExactly(t[2], store[t[1]][t[2].Name],
                    ListResult(config, store, tableCounts, t[1], t[2].Alias, q, <<>>),
                    PageOfQuery(q), PageSizeOfQuery(q))

\* ------------------------------------------------------------------------
\* C18
\* ------------------------------------------------------------------------
\* The records of the table that the primary-key value of an input row names.
RecordsOfPk(dbType, R, pk, idVal) ==
  IF IsMongo(dbType) THEN MongoDocsOfPk(R, pk, idVal) ELSE GormRowsOfPk(R, pk, idVal)

\* The data of the resolver hold, for every input row, the records its
\* primary key names as they are in the table after the update.
ReturnsUpdated(dbType, tc, input, r) ==
  \A i \in DOMAIN input :
    \A rec \in RecordsOfPk(dbType, r.R2, tc.PrimaryKey, input[i][tc.PrimaryKey]) :
      \E k \in DOMAIN r.data : r.data[k] = fixPkFieldToString(rec, tc.PrimaryKey)

\* C18: the mutation batchUpdateX whose PUT succeeded returns, for every
\* input row whose primary key names an existing record, that record in its
\* state after the update, for input arrays of any length.
C18_ResolverReturnsAllUpdated ==
  \A t \in ServedTables : \A input \in ResolverInputs(config[t[1]].Type, t[2]) :
    \A order \in VisitOrders(config[t[1]].Type, RefetchQuery(t[2].PrimaryKey, input)) :
      BatchUpdateResult(config, store, now, t[1], t[2].Alias, input).status = 200 =>
        ReturnsUpdated(config[t[1]].Type, t[2], input,
                       BatchUpdateResolved(config, store, tableCounts, now, t[1], t[2].Alias,
                                           t[2], input, order,
                                           BatchUpdateResult(config, store, now, t[1],
                                                             t[2].Alias, input)))

\* ------------------------------------------------------------------------
\* The startup specification: RegisterRestfulAndGraphql runs ExtractDbMeta
\* and then RegisterRestAPI over a configuration directory with the
\* databases "a" and "b"; the requests are served once the routes are
\* registered.
\* ------------------------------------------------------------------------
NameB == <<"b">>
NameU == <<"u">>

DatabaseNames == {NameA, NameB}

\* The table files of a directory in the order of os.ReadDir.
TableFiles == <<NameT, NameU>>

TableFileNames == {TableFiles[i] : i \in DOMAIN TableFiles}

\* The types extractTableMeta has a case for, and those newDatabaseManager
\* has a case for.
ExtractTypes ==
  {"mysql", "postgres", "postgresql", "sqlite", "sqlserver", "clickhouse", "mongodb"}

ManagerTypes == {"mysql", "postgresql", "sqlite", "sqlserver", "clickhouse", "mongodb"}

\* extractTableMetaWithDefaultAlias returns an error.
ExtractFails(b, d) == b.types[d] \notin ExtractTypes \/ ~b.up[d]

\* The tables ExtractDbMeta writes <table>.enable.yaml for.
TablesWritten(b, d) ==
  IF ExtractFails(b, d) THEN {} ELSE b.backend[d] \ b.disable[d]

\* The table directory of a database after ExtractDbMeta.
EnableAfterExtract(b, d) ==
  [t \in TableFileNames |-> IF t \in TablesWritten(b, d) THEN "valid" ELSE b.enable[d][t]]

\* getAliasFromYAML: the alias of the enable file, "" when the file is
\* missing or is not YAML.
getAliasFromYAML(b, d, t) ==
  IF b.enable[d][t] = "valid" THEN b.alias[d][t] ELSE <<>>

\* The alias ExtractDbMeta writes into <table>.enable.yaml: the one the file
\* held, else the name of the table.
AliasWritten(b, d, t) ==
  IF getAliasFromYAML(b, d, t) # <<>> THEN getAliasFromYAML(b, d, t) ELSE t

AliasAfterExtract(b, d) ==
  [t \in TableFileNames |->
     IF t \in TablesWritten(b, d) THEN AliasWritten(b, d, t) ELSE b.alias[d][t]]

\* swagger.yaml of a database after ExtractDbMeta: the tables it lists.
SwaggerAfterExtract(b, d) ==
  IF ExtractFails(b, d) THEN b.swagger[d] ELSE b.backend[d] \ b.disable[d]

\* ExtractDbMeta(cfgs, "/api/rest"); its error is dropped by the caller.
ExtractDbMeta ==
  /\ boot.pc = "extract"
  /\ boot' = [boot EXCEPT !.pc = "load",
                          !.alias = [d \in DatabaseNames |-> AliasAfterExtract(boot, d)],
                          !.enable = [d \in DatabaseNames |-> EnableAfterExtract(boot, d)],
                          !.written = [d \in DatabaseNames |-> TablesWritten(boot, d)],
                          !.swagger = [d \in DatabaseNames |-> SwaggerAfterExtract(boot, d)]]
  /\ UNCHANGED <<config, paging, sched, kv, store, nextId, now, tableCounts, counter, dirty, resp>>

\* loadConfigFromDir returns an error: a file whose name contains
\* ".enable.yaml" cannot be read or unmarshalled.
LoadFails(b) == \E d \in DatabaseNames : \E t \in TableFileNames : b.enable[d][t] = "broken"

\* The database files in the order of os.ReadDir.
DatabaseFiles == <<NameA, NameB>>

\* The file whose databaseConfig config.Databases holds under an alias: each
\* file is stored under its alias, a later one replacing an earlier one.
FileOfAlias(b, a) ==
  DatabaseFiles[CHOOSE i \in DOMAIN DatabaseFiles :
                  /\ b.dbAlias[DatabaseFiles[i]] = a
                  /\ \A j \in DOMAIN DatabaseFiles :
                       b.dbAlias[DatabaseFiles[j]] = a => j <= i]

DatabaseAliases(b) == {b.dbAlias[d] : d \in DatabaseNames}

\* The loop over cfg.Databases of newDatabaseManager returns an error.
ConnectFails(b) ==
  \E a \in DatabaseAliases(b) :
    b.types[FileOfAlias(b, a)] \notin ManagerTypes \/ ~b.up[FileOfAlias(b, a)]

\* The names of the files with ".enable.yaml" in a table directory.
EnabledFiles(b, d) ==
  LET Enabled(t) == b.enable[d][t] # "none"
  IN  SelectSeq(TableFiles, Enabled)

\* The databaseConfig loaded for a database: one tableConfig for each
\* enable file of its table directory.
LoadedDatabase(dbType, names, alias) ==
  [Type |-> dbType,
   Tables |-> [i \in DOMAIN names |->
                 [(IF IsMongo(dbType) THEN MongoTableMeta(names[i], {"_id", "v"})
                   ELSE SqlTableMeta(names[i], PlainColumns))
                  EXCEPT !.Alias = alias[names[i]]]],
   Columns |-> [x \in {names[i] : i \in DOMAIN names} |->
                  IF IsMongo(dbType) THEN {} ELSE PlainColumns]]

\* config.Databases as loadConfigFromDir returns it.
loadConfigFromDir(b) ==
  [a \in DatabaseAliases(b) |->
     LoadedDatabase(b.types[FileOfAlias(b, a)], EnabledFiles(b, FileOfAlias(b, a)),
                    b.alias[FileOfAlias(b, a)])]

\* RegisterRestAPI: newDatabaseManager, log.Fatalf on its error, else the
\* routes.
RegisterRestAPI ==
  /\ boot.pc = "load"
  /\ IF LoadFails(boot) \/ ConnectFails(boot)
     THEN /\ boot' = [boot EXCEPT !.pc = "exited"]
          /\ UNCHANGED <<config, store, nextId>>
     ELSE /\ boot' = [boot EXCEPT !.pc = "serving"]
          /\ config' = loadConfigFromDir(boot)
          /\ store' = EmptyStore(loadConfigFromDir(boot))
          /\ nextId' = NoneInserted(loadConfigFromDir(boot))
  /\ UNCHANGED <<paging, sched, kv, now, tableCounts, counter, dirty, resp>>

\* The databases at startup: reachable or not, of a type the gateway knows
\* or not.
DatabaseKinds ==
  { [Type |-> "mysql", Up |-> TRUE], [Type |-> "mysql", Up |-> FALSE],
    [Type |-> "mongodb", Up |-> TRUE], [Type |-> "oracle", Up |-> TRUE] }

\* The table directories at startup: for each table no enable file, a
\* readable one or one that is not YAML, and the tables with a disable
\* file.  A readable enable file names a table of the backend.
TableDirs(backend) ==
  { [enable |-> e, disable |-> dis] :
      e \in {f \in [TableFileNames -> {"none", "valid", "broken"}] :
               \A t \in TableFileNames : f[t] = "valid" => t \in backend},
      dis \in SUBSET TableFileNames }

NoConfig == [d \in {} |-> LoadedDatabase("", <<>>, <<>>)]

\* Database "a" in every situation, database "b" with one table and an
\* empty table directory.
BootStates ==
  { [pc |-> "extract",
     types |-> [d \in DatabaseNames |-> IF d = NameA THEN ka.Type ELSE kb.Type],
     up |-> [d \in DatabaseNames |-> IF d = NameA THEN ka.Up ELSE kb.Up],
     backend |-> [d \in DatabaseNames |-> IF d = NameA THEN ba ELSE {NameT}],
     enable |-> [d \in DatabaseNames |->
                   IF d = NameA THEN dir.enable ELSE [t \in TableFileNames |-> "none"]],
     disable |-> [d \in DatabaseNames |-> IF d = NameA THEN dir.disable ELSE {}],
     dbAlias |-> [d \in DatabaseNames |-> d],
     alias |-> [d \in DatabaseNames |-> [t \in TableFileNames |-> t]],
     written |-> [d \in DatabaseNames |-> {}],
     swagger |-> [d \in DatabaseNames |-> {}]] :
      ka \in DatabaseKinds, kb \in DatabaseKinds,
      ba \in {{NameT}, TableFileNames},
      dir \in TableDirs(TableFileNames) }

StartupInit ==
  /\ boot \in {b \in BootStates :
                 \A t \in TableFileNames :
                   b.enable[NameA][t] = "valid" => t \in b.backend[NameA]}
  /\ config = NoConfig
  /\ store = EmptyStore(config)
  /\ nextId = NoneInserted(config)
  /\ now = 1
  /\ tableCounts = NoCounts
  /\ counter = CounterOff
  /\ dirty = FALSE
  /\ resp = NoResponse
  /\ paging = ViperDefaults
  /\ sched = NewScheduler
  /\ kv = Open

StartupNext ==
  \/ ExtractDbMeta
  \/ RegisterRestAPI
  \/ handleGetOne

StartupSpec == StartupInit /\ [][StartupNext]_vars

\* ------------------------------------------------------------------------
\* C19
\* ------------------------------------------------------------------------
\* Nothing fails at startup for the database: it is reachable, of a known
\* type, and every enable file of its table directory can be read.
StartsClean(b, d) ==
  /\ b.up[d]
  /\ b.types[d] \in ManagerTypes
  /\ \A t \in TableFileNames : b.enable[d][t] # "broken"

\* A table of the database is served under its name.
Serves(cfg, d, t) == HasTable(cfg, d, t)

\* C19: a startup failure confined to one database or one table skips only
\* that one: once startup is over the gateway serves every database without
\* a failure, and every table of it with a readable enable file.
C19_StartupFailureIsolated ==
  boot.pc \in {"serving", "exited"} =>
    \A d \in DatabaseNames :
      StartsClean(boot, d) =>
        /\ boot.pc = "serving"
        /\ \A t \in TableFileNames : boot.enable[d][t] = "valid" => Serves(config, d, t)

\* ------------------------------------------------------------------------
\* C20
\* ------------------------------------------------------------------------
\* C20: a table with a <table>.disable.yaml file in the table directory of
\* its database gets no enable YAML written, is absent from swagger.yaml and
\* no route resolves to it, whatever else the directory holds.
C20_DisabledTableExcluded ==
  \A d \in DatabaseNames : \A t \in boot.disable[d] :
    /\ t \notin boot.written[d]
    /\ t \notin boot.swagger[d]
    /\ ~Serves(config, d, t)

\* ------------------------------------------------------------------------
\* The alias specification: the gateway is started again and again over the
\* same configuration directory; between two starts tables are created in
\* the backends and an operator changes the alias of an enable file to one
\* no other enable file of the directory carries.
\* ------------------------------------------------------------------------
AliasTexts == {NameT, NameU}

\* The aliases of the readable enable files of a directory differ.
AliasesDiffer(enable, alias) ==
  \A t \in TableFileNames : \A u \in TableFileNames :
    (enable[t] = "valid" /\ enable[u] = "valid" /\ alias[t] = alias[u]) => t = u

\* An operator writes another alias into a readable enable file.
EditAlias ==
  /\ boot.pc = "extract"
  /\ \E d \in DatabaseNames : \E t \in TableFileNames : \E a \in AliasTexts :
       /\ boot.enable[d][t] = "valid"
       /\ a # boot.alias[d][t]
       /\ AliasesDiffer(boot.enable[d], [boot.alias[d] EXCEPT ![t] = a])
       /\ boot' = [boot EXCEPT !.alias[d][t] = a]
  /\ UNCHANGED <<config, paging, sched, kv, store, nextId, now, tableCounts, counter, dirty, resp>>

\* A table is created in a backend.
CreateTable ==
  /\ boot.pc = "extract"
  /\ \E d \in DatabaseNames : \E t \in TableFileNames \ boot.backend[d] :
       boot' = [boot EXCEPT !.backend[d] = @ \cup {t}]
  /\ UNCHANGED <<config, paging, sched, kv, store, nextId, now, tableCounts, counter, dirty, resp>>

\* The process is stopped and started again.
Restart ==
  /\ boot.pc = "serving"
  /\ boot' = [boot EXCEPT !.pc = "extract"]
  /\ config' = NoConfig
  /\ store' = EmptyStore(NoConfig)
  /\ nextId' = NoneInserted(NoConfig)
  /\ UNCHANGED <<paging, sched, kv, now, tableCounts, counter, dirty, resp>>

\* Two database files, with different aliases or with the same one, each
\* backend with the table "t" and an empty table directory.
AliasBootStates ==
  { [pc |-> "extract",
     types |-> [d \in DatabaseNames |-> IF d = NameA THEN "mysql" ELSE "mongodb"],
     up |-> [d \in DatabaseNames |-> TRUE],
     backend |-> [d \in DatabaseNames |-> {NameT}],
     enable |-> [d \in DatabaseNames |-> [t \in TableFileNames |-> "none"]],
     disable |-> [d \in DatabaseNames |-> {}],
     dbAlias |-> [d \in DatabaseNames |-> IF same THEN NameA ELSE d],
     alias |-> [d \in DatabaseNames |-> [t \in TableFileNames |-> t]],
     written |-> [d \in DatabaseNames |-> {}],
     swagger |-> [d \in DatabaseNames |-> {}]] : same \in BOOLEAN }

AliasInit ==
  /\ boot \in AliasBootStates
  /\ config = NoConfig
  /\ store = EmptyStore(config)
  /\ nextId = NoneInserted(config)
  /\ now = 1
  /\ tableCounts = NoCounts
  /\ counter = CounterOff
  /\ dirty = FALSE
  /\ resp = NoResponse
  /\ paging = ViperDefaults
  /\ sched = NewScheduler
  /\ kv = Open

AliasNext ==
  \/ ExtractDbMeta
  \/ RegisterRestAPI
  \/ handleGetOne
  \/ Restart
  \/ EditAlias
  \/ CreateTable

AliasSpec == AliasInit /\ [][AliasNext]_vars

\* ------------------------------------------------------------------------
\* C21
\* ------------------------------------------------------------------------
\* C21: once the configuration is materialized and loaded, no two served
\* tables of a database have the same alias, across restarts that keep the
\* aliases written before.
C21_AliasesUnique ==
  boot.pc = "serving" =>
    \A d \in DOMAIN config :
      \A i \in DOMAIN config[d].Tables : \A j \in DOMAIN config[d].Tables :
        config[d].Tables[i].Alias = config[d].Tables[j].Alias => i = j

\* ------------------------------------------------------------------------
\* The scheduler specification: utils.Scheduler used by two goroutines,
\* with the run loop of its cron.
\* ------------------------------------------------------------------------
MaxEntries == 3

\* Cron expressions, field by field: every second, every other second, and
\* one of five fields.
SpecEvery1 == <<"*/1", "*", "*", "*", "*", "*">>
SpecEvery2 == <<"*/2", "*", "*", "*", "*", "*">>
SpecFive == <<"*", "*", "*", "*", "*">>

JobSpecs == {SpecEvery1, SpecEvery2, SpecFive}

CronFields == {"*", "*/1", "*/2"}

\* The parser of cron.New(cron.WithSeconds()) accepts the expression: six
\* fields, each one well formed.
ParseOk(spec) == Len(spec) = 6 /\ \A i \in DOMAIN spec : spec[i] \in CronFields

Returned(op, id, err, has) == [op |-> op, id |-> id, err |-> err, has |-> has]

\* cron.AddFunc on a parsed expression: a new entry under the next EntryID.
CronAdd(s, id, spec) ==
  [s EXCEPT !.nextID = @ + 1,
            !.entries = @ \cup {[id |-> s.nextID + 1, job |-> id, spec |-> spec,
                                 due |-> FALSE]}]

\* cron.Remove(entryID)
CronRemove(s, entryID) == [s EXCEPT !.entries = {e \in @ : e.id # entryID}]

\* AddJob without the lookup in s.jobs.
AddJob_NoLookup(s, p, id, spec) ==
  IF ~ParseOk(spec)
  THEN [s EXCEPT !.ret[p] = Returned("AddJob", id, "parse", FALSE), !.fired = {}]
  ELSE [CronAdd(s, id, spec) EXCEPT !.mu = p, !.fired = {},
                                    !.call[p] = [op |-> "AddJob", id |-> id,
                                                 entry |-> s.nextID + 1]]

\* AddJob up to and including s.cron.AddFunc: on an error it returns with
\* the mutex released, else it holds the mutex and the new EntryID.
AddJob(s, p, id, spec) ==
  IF id \in DOMAIN s.jobs
  THEN [s EXCEPT !.ret[p] = Returned("AddJob", id, "job ID already exists", FALSE),
                 !.fired = {}]
  ELSE AddJob_NoLookup(s, p, id, spec)

\* RemoveJob that leaves the entry in the cron.
RemoveJob_KeepEntry(s, p, id) ==
  IF id \notin DOMAIN s.jobs
  THEN [s EXCEPT !.ret[p] = Returned("RemoveJob", id, "job ID not found", FALSE),
                 !.fired = {}]
  ELSE [s EXCEPT !.mu = p, !.fired = {},
                 !.call[p] = [op |-> "RemoveJob", id |-> id, entry |-> s.jobs[id]]]

\* RemoveJob up to and including s.cron.Remove.
RemoveJob(s, p, id) ==
  IF id \notin DOMAIN s.jobs
  THEN [s EXCEPT !.ret[p] = Returned("RemoveJob", id, "job ID not found", FALSE),
                 !.fired = {}]
  ELSE [CronRemove(s, s.jobs[id]) EXCEPT
          !.mu = p, !.fired = {},
          !.call[p] = [op |-> "RemoveJob", id |-> id, entry |-> s.jobs[id]]]

\* s.jobs[id] = entryID; return nil
AddJobDone(s, p) ==
  [s EXCEPT !.jobs = [i \in DOMAIN @ \cup {s.call[p].id} |->
                        IF i = s.call[p].id THEN s.call[p].entry ELSE @[i]],
            !.mu = 0, !.call[p] = NoCall, !.fired = {},
            !.ret[p] = Returned("AddJob", s.call[p].id, "", FALSE),
            !.lastOk[s.call[p].id] = "add"]

\* delete(s.jobs, id); return nil
RemoveJobDone(s, p) ==
  [s EXCEPT !.jobs = [i \in DOMAIN @ \ {s.call[p].id} |-> @[i]],
            !.mu = 0, !.call[p] = NoCall, !.fired = {},
            !.ret[p] = Returned("RemoveJob", s.call[p].id, "", FALSE),
            !.lastOk[s.call[p].id] = "remove",
            !.removed = @ \cup {s.call[p].entry}]

SchedulerOnly ==
  UNCHANGED <<config, store, nextId, now, tableCounts, counter, dirty, resp, paging, boot, kv>>

\* A goroutine calls AddJob and gets the mutex.
AddJobCall ==
  /\ sched.mu = 0
  /\ \E p \in Callers : \E id \in JobIds : \E spec \in JobSpecs :
       /\ sched.call[p] = NoCall
       /\ sched.nextID < MaxEntries
       /\ sched' = AddJob(sched, p, id, spec)
  /\ SchedulerOnly

AddJobReturn ==
  /\ \E p \in Callers :
       /\ sched.call[p].op = "AddJob"
       /\ sched' = AddJobDone(sched, p)
  /\ SchedulerOnly

RemoveJobCall ==
  /\ sched.mu = 0
  /\ \E p \in Callers : \E id \in JobIds :
       /\ sched.call[p] = NoCall
       /\ sched' = RemoveJob(sched, p, id)
  /\ SchedulerOnly

RemoveJobReturn ==
  /\ \E p \in Callers :
       /\ sched.call[p].op = "RemoveJob"
       /\ sched' = RemoveJobDone(sched, p)
  /\ SchedulerOnly

HasJob ==
  /\ sched.mu = 0
  /\ \E p \in Callers : \E id \in JobIds :
       /\ sched.call[p] = NoCall
       /\ sched' = [sched EXCEPT !.ret[p] = Returned("HasJob", id, "",
                                                     id \in DOMAIN sched.jobs),
                                 !.fired = {}]
  /\ SchedulerOnly

\* Scheduler.Start
SchedulerStart ==
  /\ ~sched.running
  /\ sched' = [sched EXCEPT !.running = TRUE, !.fired = {}]
  /\ SchedulerOnly

\* Scheduler.Stop
SchedulerStop ==
  /\ sched.running
  /\ sched' = [sched EXCEPT !.running = FALSE, !.fired = {}]
  /\ SchedulerOnly

\* Time passes: the next activation of every entry is reached.
Elapse ==
  /\ \E e \in sched.entries : ~e.due
  /\ sched' = [sched EXCEPT !.entries = {[e EXCEPT !.due = TRUE] : e \in @}, !.fired = {}]
  /\ SchedulerOnly

\* The run loop of the cron wakes up and starts the job of every entry that
\* is due.
CronRun ==
  /\ sched.running
  /\ \E e \in sched.entries : e.due
  /\ sched' = [sched EXCEPT !.fired = {e.id : e \in {x \in sched.entries : x.due}},
                            !.entries = {[e EXCEPT !.due = FALSE] : e \in @}]
  /\ SchedulerOnly

SchedulerInit ==
  /\ config = NoConfig
  /\ store = EmptyStore(config)
  /\ nextId = NoneInserted(config)
  /\ now = 1
  /\ tableCounts = NoCounts
  /\ counter = CounterOff
  /\ dirty = FALSE
  /\ resp = NoResponse
  /\ paging = ViperDefaults
  /\ boot = Started
  /\ sched = NewScheduler
  /\ kv = Open

SchedulerNext ==
  \/ AddJobCall
  \/ AddJobReturn
  \/ RemoveJobCall
  \/ RemoveJobReturn
  \/ HasJob
  \/ SchedulerStart
  \/ SchedulerStop
  \/ Elapse
  \/ CronRun

SchedulerSpec == SchedulerInit /\ [][SchedulerNext]_vars

\* Time passes, the run loop of a started cron runs, and a goroutine that
\* holds the mutex runs on to its return.
SchedulerLiveSpec ==
  /\ SchedulerInit /\ [][SchedulerNext]_vars
  /\ WF_vars(Elapse) /\ WF_vars(CronRun)
  /\ WF_vars(AddJobReturn) /\ WF_vars(RemoveJobReturn)

\* ------------------------------------------------------------------------
\* C22
\* ------------------------------------------------------------------------
\* The registered ids, the entries of the cron and their schedules are those
\* of sched, and the mutex is free again.
LeavesJobs(s2) ==
  /\ s2.jobs = sched.jobs
  /\ s2.entries = sched.entries
  /\ s2.mu = 0

\* C22: AddJob with a registered id returns "job ID already exists",
\* RemoveJob with an id that is not registered returns "job ID not found",
\* AddJob with an invalid cron expression returns an error; each leaves the
\* registered ids and the schedule of every registered job as they were.
C22_FailedCallsChangeNothing ==
  sched.mu = 0 =>
    \A p \in Callers : \A id \in JobIds :
      /\ \A spec \in JobSpecs :
           /\ id \in DOMAIN sched.jobs =>
                /\ AddJob(sched, p, id, spec).ret[p].err = "job ID already exists"
                /\ LeavesJobs(AddJob(sched, p, id, spec))
           /\ ~ParseOk(spec) =>
                /\ AddJob(sched, p, id, spec).ret[p].err # ""
                /\ LeavesJobs(AddJob(sched, p, id, spec))
      /\ id \notin DOMAIN sched.jobs =>
           /\ RemoveJob(sched, p, id).ret[p].err = "job ID not found"
           /\ LeavesJobs(RemoveJob(sched, p, id))

\* A goroutine was refused a second AddJob of a registered id, the other one
\* a RemoveJob of an id that is not registered.
C22_Witness ==
  /\ sched.jobs # NewScheduler.jobs
  /\ \E p \in Callers : \E q \in Callers :
       /\ sched.ret[p].err = "job ID already exists"
       /\ sched.ret[p].id \in DOMAIN sched.jobs
       /\ sched.ret[q].err = "job ID not found"
       /\ sched.ret[q].id \notin DOMAIN sched.jobs

\* ------------------------------------------------------------------------
\* C23
\* ------------------------------------------------------------------------
\* With the mutex free, HasJob(id) answers true exactly for the ids whose
\* last operation that returned nil was AddJob.
HasJobTracksLast ==
  sched.mu = 0 => \A id \in JobIds : (id \in DOMAIN sched.jobs) <=> (sched.lastOk[id] = "add")

\* No entry whose RemoveJob has returned is started.
RemovedNeverStarted == sched.fired \cap sched.removed = {}

\* A registered job is started again and again while the scheduler runs.
KeepsRunning(id) ==
  []<>(~sched.running \/ id \notin DOMAIN sched.jobs \/ sched.jobs[id] \in sched.fired)

\* C23: under any interleaving of AddJob and RemoveJob, HasJob(id) is true
\* exactly when the last successful operation on id was AddJob; a
\* registered job of a started scheduler keeps being run; a job whose
\* RemoveJob has returned is never started again.
C23_JobsFollowCalls ==
  /\ [](HasJobTracksLast /\ RemovedNeverStarted)
  /\ \A id \in JobIds : KeepsRunning(id)

\* A job was removed, and the cron has since started another one.
C23_Witness ==
  /\ sched.running
  /\ sched.removed # {}
  /\ sched.fired # {}
  /\ \E id \in JobIds : sched.lastOk[id] = "remove" /\ id \notin DOMAIN sched.jobs

\* ------------------------------------------------------------------------
\* The key-value specification: utils.KVStore over badger, whose entries
\* carry ExpiresAt in whole seconds of Unix time.
\* ------------------------------------------------------------------------
TicksPerSecond == 2

MaxTime == 8

KVKeys == {"foo", "temp", ""}

KVValues == {"bar", "123"}

\* The TTLs of the model, in ticks: none, negative, half a second, one
\* second, two seconds.
KVTtls == {0, -1, 1, 2, 4}

ErrKeyNotFound == "Key not found"

ErrEmptyKey == "Key cannot be empty"

\* time.Time.Unix() of a time in ticks.
Unix(t) == t \div TicksPerSecond

\* Entry.WithTTL(ttl): ExpiresAt = time.Now().Add(ttl).Unix(); an entry
\* without TTL has ExpiresAt 0.
ExpiresAt(time, ttl) == IF ttl > 0 THEN Unix(time + ttl) ELSE 0

\* badger: the entry is expired.
isExpired(expiresAt, time) == expiresAt # 0 /\ expiresAt <= Unix(time)

\* txn.Get(key): the error, "" for none.
TxnGetErr(k, key) ==
  IF key = "" THEN ErrEmptyKey
  ELSE IF key \notin DOMAIN k.data THEN ErrKeyNotFound
  ELSE IF isExpired(k.data[key].expiresAt, k.time) THEN ErrKeyNotFound
  ELSE ""

KVReturned(op, key, value, err, ok) ==
  [op |-> op, key |-> key, value |-> value, err |-> err, ok |-> ok]

\* KVStore.Get: the value and the error.
KVGet(k, key) ==
  IF TxnGetErr(k, key) # "" THEN KVReturned("Get", key, "", TxnGetErr(k, key), FALSE)
  ELSE KVReturned("Get", key, k.data[key].value, "", FALSE)

\* KVStore.Has: the answer and the error.
KVHas(k, key) ==
  IF TxnGetErr(k, key) = ErrKeyNotFound THEN KVReturned("Has", key, "", "", FALSE)
  ELSE KVReturned("Has", key, "", TxnGetErr(k, key), TxnGetErr(k, key) = "")

MapPut(f, key, v) == [x \in DOMAIN f \cup {key} |-> IF x = key THEN v ELSE f[x]]

\* KVStore.Set
KVSet(k, key, value, ttl) ==
  IF key = "" THEN [k EXCEPT !.ret = KVReturned("Set", key, value, ErrEmptyKey, FALSE)]
  ELSE [k EXCEPT !.data = MapPut(@, key, [value |-> value,
                                           expiresAt |-> ExpiresAt(k.time, ttl)]),
                 !.hist = MapPut(@, key, [value |-> value, at |-> k.time, ttl |-> ttl,
                                           live |-> TRUE]),
                 !.ret = KVReturned("Set", key, value, "", FALSE)]

\* KVStore.Delete
KVDelete(k, key) ==
  IF key = "" THEN [k EXCEPT !.ret = KVReturned("Delete", key, "", ErrEmptyKey, FALSE)]
  ELSE [k EXCEPT !.data = [x \in DOMAIN @ \ {key} |-> @[x]],
                 !.hist = MapPut(@, key, [value |-> "", at |-> k.time, ttl |-> 0,
                                           live |-> FALSE]),
                 !.ret = KVReturned("Delete", key, "", "", FALSE)]

KVOnly ==
  UNCHANGED <<config, store, nextId, now, tableCounts, counter, dirty, resp, paging, boot,
              sched>>

Set ==
  /\ \E key \in KVKeys : \E value \in KVValues : \E ttl \in KVTtls :
       kv' = KVSet(kv, key, value, ttl)
  /\ KVOnly

Get ==
  /\ \E key \in KVKeys : kv' = [kv EXCEPT !.ret = KVGet(kv, key)]
  /\ KVOnly

Delete ==
  /\ \E key \in KVKeys : kv' = KVDelete(kv, key)
  /\ KVOnly

Has ==
  /\ \E key \in KVKeys : kv' = [kv EXCEPT !.ret = KVHas(kv, key)]
  /\ KVOnly

\* Half a second passes.
KVTick ==
  /\ kv.time < MaxTime
  /\ kv' = [kv EXCEPT !.time = @ + 1]
  /\ KVOnly

\* The store is opened at a whole second or half a second after one.
KVInit ==
  /\ config = NoConfig
  /\ store = EmptyStore(config)
  /\ nextId = NoneInserted(config)
  /\ now = 1
  /\ tableCounts = NoCounts
  /\ counter = CounterOff
  /\ dirty = FALSE
  /\ resp = NoResponse
  /\ paging = ViperDefaults
  /\ boot = Started
  /\ sched = NewScheduler
  /\ kv \in {[Open EXCEPT !.time = t] : t \in {2 * TicksPerSecond, 2 * TicksPerSecond + 1}}

KVNext ==
  \/ Set
  \/ Get
  \/ Delete
  \/ Has
  \/ KVTick

KVSpec == KVInit /\ [][KVNext]_vars

\* ------------------------------------------------------------------------
\* C24
\* ------------------------------------------------------------------------
\* The key holds a value: its last operation was a Set whose TTL, if it had
\* one, has not run out.
Holds(h, time) == h.live /\ (h.ttl <= 0 \/ time < h.at + h.ttl)

\* C24: Get returns the value of the latest Set and Has returns (true, nil)
\* until the key is deleted or its TTL has run out; afterwards Has returns
\* (false, nil) and Get returns the key-not-found error; a Set with
\* ttl <= 0 never expires.
C24_GetFollowsLastSet ==
  \A key \in DOMAIN kv.hist :
    IF Holds(kv.hist[key], kv.time)
    THEN /\ KVGet(kv, key).err = "" /\ KVGet(kv, key).value = kv.hist[key].value
         /\ KVHas(kv, key).ok /\ KVHas(kv, key).err = ""
    ELSE /\ KVGet(kv, key).err = ErrKeyNotFound
         /\ ~KVHas(kv, key).ok /\ KVHas(kv, key).err = ""

\* ------------------------------------------------------------------------
\* C25
\* ------------------------------------------------------------------------
\* The row cannot be applied: it lacks the primary key, or it sets a field
\* that is no column of the table.
RowFails(tc, cols, rec) ==
  \/ tc.PrimaryKey \notin DOMAIN rec
  \/ DOMAIN rec # {tc.PrimaryKey} /\ \E f \in DOMAIN rec : f \notin {c.Name : c \in cols}

RowError(tc, rec) == IF tc.PrimaryKey \notin DOMAIN rec THEN "nopk" ELSE "backend"

FirstFailing(tc, cols, records) ==
  CHOOSE i \in DOMAIN records :
    RowFails(tc, cols, records[i]) /\ \A j \in 1..(i - 1) : ~RowFails(tc, cols, records[j])

\* The batch ends as a whole: with a failing row nothing is changed and the
\* error is that of the first failing row; else the rows are applied one
\* after the other.
AllOrNothing(dbType, tc, R, cols, records, res) ==
  IF \E i \in DOMAIN records : RowFails(tc, cols, records[i])
  THEN /\ res.R2 = R
       /\ res.err = RowError(tc, records[FirstFailing(tc, cols, records)])
  ELSE /\ res.err = ""
       /\ Len(records) = 2 =>
            res.R2 = GormBatchUpdate(dbType, tc,
                                     GormBatchUpdate(dbType, tc, R, cols, <<records[1]>>).R2,
                                     cols, <<records[2]>>).R2

\* C25: on a relational adapter BatchUpdate applies the rows in input order
\* in one transaction: when a row fails no row of the batch stays modified
\* and the error is that of the first failing row.
C25_RelationalBatchAtomic ==
  \A t \in ServedTables :
    ~IsMongo(config[t[1]].Type) =>
      \A records \in BatchBodies(config[t[1]].Type, t[2]) :
        AllOrNothing(config[t[1]].Type, t[2], store[t[1]][t[2].Name],
                     config[t[1]].Columns[t[2].Name], records,
                     GormBatchUpdate(config[t[1]].Type, t[2], store[t[1]][t[2].Name],
                                     config[t[1]].Columns[t[2].Name], records))

\* A batch of two rows was refused whose first row alone changes a record.
C25_Witness ==
  /\ resp.op = "BatchUpdate" /\ resp.status = 400 /\ Len(resp.id) = 2
  /\ ~IsMongo(config[resp.db].Type)
  /\ \E t \in ServedTables :
       /\ t[1] = resp.db /\ t[2].Alias = resp.tbl
       /\ RowFails(t[2], config[t[1]].Columns[t[2].Name], resp.id[2])
       /\ GormBatchUpdate(config[t[1]].Type, t[2], store[t[1]][t[2].Name],
                          config[t[1]].Columns[t[2].Name], <<resp.id[1]>>).R2
            # store[t[1]][t[2].Name]

\* ------------------------------------------------------------------------
\* C26
\* ------------------------------------------------------------------------
\* The first row of the batch without the primary key.
FirstKeyless(tc, records) ==
  CHOOSE i \in DOMAIN records :
    /\ tc.PrimaryKey \notin DOMAIN records[i]
    /\ \A j \in 1..(i - 1) : tc.PrimaryKey \in DOMAIN records[j]

\* The rows before row k.
RowsBefore(records, k) == SubSeq(records, 1, k - 1)

\* The collection is as the rows before row k leave it.
PrefixApplied(tc, R, records, k, r) ==
  r.R2 = MongoBatchUpdate(tc, R, RowsBefore(records, k)).R2

\* The count of the answer is the number of documents the rows before row k
\* matched.
PrefixCounted(tc, R, records, k, r) ==
  r.count = MongoBatchUpdate(tc, R, RowsBefore(records, k)).matched

\* C26: on the document adapter a batch update whose row k fails leaves the
\* rows before k applied and the rows from k on untouched, and the counts
\* reported for the batch are the totals over the rows before k.
C26_DocumentBatchPartial ==
  \A t \in ServedTables :
    IsMongo(config[t[1]].Type) =>
      \A records \in BatchBodies(config[t[1]].Type, t[2]) :
        LacksPk(t[2], records) =>
          /\ PrefixApplied(t[2], store[t[1]][t[2].Name],
                           [i \in DOMAIN records |->
                              applyAutoUpdateFields(records[i], t[2], now)],
                           FirstKeyless(t[2], records),
                           BatchUpdateResult(config, store, now, t[1], t[2].Alias, records))
          /\ PrefixCounted(t[2], store[t[1]][t[2].Name],
                           [i \in DOMAIN records |->
                              applyAutoUpdateFields(records[i], t[2], now)],
                           FirstKeyless(t[2], records),
                           BatchUpdateResult(config, store, now, t[1], t[2].Alias, records))

\* ------------------------------------------------------------------------
\* The shutdown specification: main serves, receives SIGINT or SIGTERM,
\* shuts the HTTP server down and returns, with the refresher running
\* beside it.  cancelled: the context of the refresher is done.
\* ------------------------------------------------------------------------
Serving == [pc |-> "serving", cancelled |-> FALSE]

ShutdownInit ==
  /\ config \in CountConfigs
  /\ store = EmptyStore(config)
  /\ nextId = NoneInserted(config)
  /\ now = 1
  /\ tableCounts = NoCounts
  /\ counter = [pc |-> "start", todo |-> <<>>, count |-> 0]
  /\ dirty = FALSE
  /\ resp = NoResponse
  /\ paging = ViperDefaults
  /\ sched = NewScheduler
  /\ kv = Open
  /\ boot = Serving

MainOnly ==
  UNCHANGED <<config, paging, sched, kv, store, nextId, now, tableCounts, dirty, resp>>

\* A request is served while the server listens.
ShutdownCreate == boot.pc = "serving" /\ CountCreate

\* <-stopChan
Interrupt ==
  /\ boot.pc = "serving"
  /\ boot' = [boot EXCEPT !.pc = "shutdown"]
  /\ counter' = counter
  /\ MainOnly

\* server.Shutdown(ctx) returns.
ServerShutdown ==
  /\ boot.pc = "shutdown"
  /\ boot' = [boot EXCEPT !.pc = "stopped"]
  /\ counter' = counter
  /\ MainOnly

\* main returns: the process ends, and its goroutines with it.
MainReturn ==
  /\ boot.pc = "stopped"
  /\ boot' = [boot EXCEPT !.pc = "exited"]
  /\ counter' = CounterOff
  /\ MainOnly

ShutdownNext ==
  \/ ShutdownCreate
  \/ CounterBegin
  \/ CountTable
  \/ CacheStore
  \/ Interrupt
  \/ ServerShutdown
  \/ MainReturn

ShutdownSpec == ShutdownInit /\ [][ShutdownNext]_vars

\* ------------------------------------------------------------------------
\* C27
\* ------------------------------------------------------------------------
\* C27: once the shutdown of the server has completed the context of the
\* refresher is cancelled and the refresher has stopped: it issues no
\* CountAll and writes the cache no more.
C27_RefresherStopsOnShutdown ==
  boot.pc \in {"stopped", "exited"} => boot.cancelled /\ counter.pc = "off"

\* ------------------------------------------------------------------------
\* C28
\* ------------------------------------------------------------------------
\* Every soft-deleted record of R is in R2 with its fields other than the
\* marker as they were.
SoftDeletedKept(tc, R, R2) ==
  \A r \in R :
    Marked(tc, r) =>
      \E r2 \in R2 :
        /\ DOMAIN r2 = DOMAIN r
        /\ \A f \in DOMAIN r \ {tc.SoftDeleteKey} : r2[f] = r[f]

\* No PUT /:db/:tbl/:id changes a soft-deleted record.
UpdateOneKeepsDeleted(t) ==
  \A l \in Lookups(config[t[1]].Type, t[2]) : \A body \in UpdateBodies(t[2]) :
    SoftDeletedKept(t[2], store[t[1]][t[2].Name],
                    UpdateOneKeyResult(config, store, now, t[1], t[2].Alias,
                                       l.key, l.id, body).R2)

\* No PUT /:db/:tbl changes a soft-deleted record.
BatchUpdateKeepsDeleted(t) ==
  \A records \in BatchBodies(config[t[1]].Type, t[2]) :
    SoftDeletedKept(t[2], store[t[1]][t[2].Name],
                    BatchUpdateResult(config, store, now, t[1], t[2].Alias, records).R2)

\* C28: no update, UpdateOne or BatchUpdate, on either backend modifies a
\* soft-deleted record: its fields other than the marker stay as they were
\* when it was deleted.
C28_UpdatesSkipSoftDeleted ==
  \A t \in ServedTables : UpdateOneKeepsDeleted(t) /\ BatchUpdateKeepsDeleted(t)

\* ------------------------------------------------------------------------
\* C29
\* ------------------------------------------------------------------------
\* The cache once the refresher has stored the count it holds for the table
\* it is at.
CacheAfterStore ==
  MapSet(tableCounts, CountKey(Head(counter.todo)[1], Head(counter.todo)[2].Alias),
         counter.count)

\* The total of an unfiltered list of the table under the cache.
UnfilteredTotal(counts, t) ==
  ListResult(config, store, counts, t[1], t[2].Alias, NoQuery, <<>>).total

\* C29: distinct (database alias, table alias) pairs never share a
\* total-count cache entry: the count the refresher computed for one table
\* never becomes the total of an unfiltered list of another table.
C29_CountsNotShared ==
  counter.pc = "store" =>
    \A t \in ServedTables :
      t # Head(counter.todo) =>
        UnfilteredTotal(CacheAfterStore, t) = UnfilteredTotal(tableCounts, t)

\* ------------------------------------------------------------------------
\* The sampling specification: extractMongoDBMeta reading the sample of one
\* collection and folding the types of its fields. boot.cursor holds the
\* documents the cursor has yet to yield, boot.sampled those it has yielded,
\* boot.fieldTypes the map of field name to type.
\* ------------------------------------------------------------------------
MaxDocs == 3

SwaggerTypes == {"integer", "number", "boolean", "string", "array", "object"}

\* The Go types a decoded field value has: the driver decodes a nested
\* document to bson.M and an array to primitive.A.
BsonValues == {"int32", "int64", "float64", "bool", "string", "primitive.A", "bson.M"}

SampleFields == {"x"}

\* A document that cur.Decode rejects.
Undecodable == [k \in {"!"} |-> "bool"]

\* The documents of a sample.
SampleDocs ==
  UNION {[F -> BsonValues] : F \in SUBSET SampleFields} \cup {Undecodable}

mongoTypeToSwaggerType(v) ==
  CASE v \in {"int32", "int64", "int"} -> "integer"
    [] v \in {"float32", "float64"} -> "number"
    [] v = "bool" -> "boolean"
    [] v = "string" -> "string"
    [] v = "time.Time" -> "string"
    [] v = "[]interface{}" -> "array"
    [] v \in {"map[string]interface{}", "bson.M"} -> "object"
    [] OTHER -> "string"

mergeSwaggerType(a, b) ==
  IF a = b THEN a
  ELSE IF (a = "integer" /\ b = "number") \/ (a = "number" /\ b = "integer") THEN "number"
  ELSE IF a = "string" \/ b = "string" THEN "string"
  ELSE IF a = "object" \/ b = "object" THEN "object"
  ELSE IF a = "array" \/ b = "array" THEN "array"
  ELSE "string"

\* The body of the loop over a decoded document: every field of the
\* document is merged into the map (the fields are distinct keys, so the
\* order of the range over the document does not matter).
MergeDoc(fieldTypes, doc) ==
  [k \in DOMAIN fieldTypes \cup DOMAIN doc |->
     IF k \notin DOMAIN doc THEN fieldTypes[k]
     ELSE IF k \in DOMAIN fieldTypes
          THEN mergeSwaggerType(fieldTypes[k], mongoTypeToSwaggerType(doc[k]))
          ELSE mongoTypeToSwaggerType(doc[k])]

NoFieldTypes == [k \in {} |-> ""]

Sampling(docs) ==
  [pc |-> "sample", cursor |-> docs, sampled |-> <<>>, fieldTypes |-> NoFieldTypes]

\* cur.Next and cur.Decode of a document, and the merge of its fields.
CursorNext ==
  /\ boot.pc = "sample"
  /\ boot.cursor # <<>>
  /\ Head(boot.cursor) # Undecodable
  /\ boot' = [boot EXCEPT !.cursor = Tail(@),
                          !.sampled = Append(@, Head(boot.cursor)),
                          !.fieldTypes = MergeDoc(@, Head(boot.cursor))]
  /\ UNCHANGED <<config, store, nextId, now, tableCounts, counter, dirty, resp,
                 paging, sched, kv>>

\* cur.Decode fails: the loop continues with the next document.
DecodeFails ==
  /\ boot.pc = "sample"
  /\ boot.cursor # <<>>
  /\ Head(boot.cursor) = Undecodable
  /\ boot' = [boot EXCEPT !.cursor = Tail(@),
                          !.sampled = Append(@, Head(boot.cursor))]
  /\ UNCHANGED <<config, store, nextId, now, tableCounts, counter, dirty, resp,
                 paging, sched, kv>>

\* cur.Next returns false and the cursor is closed.
CursorClose ==
  /\ boot.pc = "sample"
  /\ boot.cursor = <<>>
  /\ boot' = [boot EXCEPT !.pc = "fields"]
  /\ UNCHANGED <<config, store, nextId, now, tableCounts, counter, dirty, resp,
                 paging, sched, kv>>

SampleInit ==
  /\ boot \in {Sampling(docs) : docs \in UNION {[1..n -> SampleDocs] : n \in 0..MaxDocs}}
  /\ config = NoConfig
  /\ store = EmptyStore(config)
  /\ nextId = NoneInserted(config)
  /\ now = 1
  /\ tableCounts = NoCounts
  /\ counter = CounterOff
  /\ dirty = FALSE
  /\ resp = NoResponse
  /\ paging = ViperDefaults
  /\ sched = NewScheduler
  /\ kv = Open

SampleNext ==
  \/ CursorNext
  \/ DecodeFails
  \/ CursorClose

SampleSpec == SampleInit /\ [][SampleNext]_vars

\* ------------------------------------------------------------------------
\* C30
\* ------------------------------------------------------------------------
RECURSIVE FieldTypesOf(_, _)
\* The map the loop leaves after the documents, visited in this order.
FieldTypesOf(fieldTypes, docs) ==
  IF docs = <<>> THEN fieldTypes
  ELSE FieldTypesOf(IF Head(docs) = Undecodable THEN fieldTypes
                    ELSE MergeDoc(fieldTypes, Head(docs)),
                    Tail(docs))

\* The documents in the order a permutation of their positions gives.
Reordered(docs, p) == [i \in DOMAIN docs |-> docs[p[i]]]

MergeCommutative ==
  \A a, b \in SwaggerTypes : mergeSwaggerType(a, b) = mergeSwaggerType(b, a)

MergeAssociative ==
  \A a, b, c \in SwaggerTypes :
    mergeSwaggerType(mergeSwaggerType(a, b), c) = mergeSwaggerType(a, mergeSwaggerType(b, c))

\* C30: the type inferred for a field of a collection does not depend on
\* the order in which the sampled documents are visited: visiting the same
\* documents in any other order leaves the same map of field types.
C30_TypeIndependentOfOrder ==
  boot.pc = "fields" =>
    \A p \in Permutations(DOMAIN boot.sampled) :
      FieldTypesOf(NoFieldTypes, Reordered(boot.sampled, p)) = boot.fieldTypes
====
